---------------------------- MODULE Spec2Model ----------------------------
(***************************************************************************)
(* Model of the clipboard ledger (clipboard_monitor.py, ClipboardMonitor)  *)
(* and of the paste correlator (capture_service.py, ProcessCaptureService).*)
(*                                                                         *)
(* Text is a sequence of one-character strings, so that substring tests,   *)
(* split and formatting are computed as the Python code computes them.     *)
(* The characters U+2014 and U+2013 are written "emdash" and "endash", any *)
(* other character outside ASCII by its code point ("U+201A").             *)
(* Enumeration tokens (event types, application types) are plain strings.  *)
(* A Python dict is a record whose domain is the set of keys it holds.     *)
(***************************************************************************)
EXTENDS Integers, Sequences, FiniteSets, TLC

(***************************************************************************)
(* Bounds of the model.                                                    *)
(***************************************************************************)
\* Capacity of the ledger.  The monitor is built with max_history = 50
\* (clipboard_monitor.py:48); the model runs the same code with a small
\* capacity so that overflow and eviction happen within the bounds.
max_history == 3
\* Recordings made in the ledger specification (more than max_history).
MaxRecords == 4
\* Largest value of the wall clock.
MaxClock == 2

(***************************************************************************)
(* Python values.                                                          *)
(***************************************************************************)
\* None where the code expects text (a str field, a command field).
None == <<"None">>
\* None where the code expects a dict (excel_selection, paste source).
NoneDict == [none |-> TRUE]
\* The int n, carried as the token "int" followed by its decimal digits.
PyInt(digits) == <<"int">> \o digits

IsInt(v) == v # <<>> /\ v[1] = "int"

\* isinstance(v, str)
IsStr(v) == v # None /\ ~IsInt(v)

\* bool(v) of a scalar (ints of the model are never 0)
Truthy(v) == v # None /\ v # <<>>

\* a or b
Or(a, b) == IF Truthy(a) THEN a ELSE b

\* str(v), as an f-string formats a scalar
Format(v) == IF v = None THEN <<"N","o","n","e">>
             ELSE IF IsInt(v) THEN Tail(v) ELSE v

\* None where the code expects a time (a JSON null or a missing timestamp)
NoTime == 0 - 1

\* the empty dict
EmptyDict == [k \in {} |-> 0]

\* dict.get(key, default)
Get(d, key, default) == IF key \in DOMAIN d THEN d[key] ELSE default

(***************************************************************************)
(* str operations.                                                         *)
(***************************************************************************)
\* sub in s
Contains(s, sub) ==
    \E i \in 0..(Len(s) - Len(sub)) : SubSeq(s, i + 1, i + Len(sub)) = sub

\* s.find(sub) for a sub that occurs in s (0-based)
Find(s, sub) ==
    CHOOSE i \in 0..(Len(s) - Len(sub)) :
        /\ SubSeq(s, i + 1, i + Len(sub)) = sub
        /\ \A j \in 0..(i - 1) : SubSeq(s, j + 1, j + Len(sub)) # sub

RECURSIVE Split(_, _)
\* s.split(sep), sep not empty
Split(s, sep) ==
    IF ~Contains(s, sep) THEN <<s>>
    ELSE LET i == Find(s, sep)
         IN  <<SubSeq(s, 1, i)>> \o Split(SubSeq(s, i + Len(sep) + 1, Len(s)), sep)

\* the lower-case letter of each upper-case letter
LowerCase == [A |-> "a", B |-> "b", C |-> "c", D |-> "d", E |-> "e", F |-> "f",
              G |-> "g", H |-> "h", I |-> "i", J |-> "j", K |-> "k", L |-> "l",
              M |-> "m", N |-> "n", O |-> "o", P |-> "p", Q |-> "q", R |-> "r",
              S |-> "s", T |-> "t", U |-> "u", V |-> "v", W |-> "w", X |-> "x",
              Y |-> "y", Z |-> "z"]

\* s.lower()
Lower(s) ==
    [i \in 1..Len(s) |-> IF s[i] \in DOMAIN LowerCase THEN LowerCase[s[i]] ELSE s[i]]

Digits == <<"0","1","2","3","4","5","6","7","8","9">>

\* str(n) for 0 <= n <= 99
Str(n) == IF n < 10 THEN <<Digits[n + 1]>>
          ELSE <<Digits[(n \div 10) + 1], Digits[(n % 10) + 1]>>

DigitValue(c) == (CHOOSE k \in 1..10 : Digits[k] = c) - 1

\* datetime.isoformat() of the clock value t: fixed width, so that the text
\* order is the time order
isoformat(t) == <<"T", Digits[(t \div 10) + 1], Digits[(t % 10) + 1]>>

\* datetime.fromisoformat(s)
fromisoformat(s) == 10 * DigitValue(s[2]) + DigitValue(s[3])


(***************************************************************************)
(* ClipboardMonitor: pure helpers.                                         *)
(***************************************************************************)
Unknown == <<"U","n","k","n","o","w","n">>

\* The suffixes _extract_document_name of the monitor looks for, in order.
MonitorSuffixes == <<
    <<" ","-"," ","E","x","c","e","l">>,
    <<" ","-"," ","W","o","r","d">>,
    <<" ","-"," ","P","o","w","e","r","P","o","i","n","t">>,
    <<" ","-"," ","G","o","o","g","l","e"," ","C","h","r","o","m","e">>,
    <<" ","-"," ","M","o","z","i","l","l","a"," ","F","i","r","e","f","o","x">>,
    <<" ","-"," ","S","a","f","a","r","i">>,
    <<" ","emdash"," ">>,
    <<" ","endash"," ">> >>

\* ClipboardMonitor._extract_document_name
Monitor_extract_document_name(window_title, app_name) ==
    IF window_title = <<>> THEN None
    ELSE IF \E k \in 1..Len(MonitorSuffixes) : Contains(window_title, MonitorSuffixes[k])
    THEN LET k == CHOOSE k \in 1..Len(MonitorSuffixes) :
                      /\ Contains(window_title, MonitorSuffixes[k])
                      /\ \A j \in 1..(k - 1) : ~Contains(window_title, MonitorSuffixes[j])
         IN  Split(window_title, MonitorSuffixes[k])[1]
    ELSE IF /\ \E ed \in {<<"c","o","d","e">>, <<"s","u","b","l","i","m","e">>, <<"a","t","o","m">>} :
                   Contains(Lower(app_name), ed)
            /\ Contains(window_title, <<" ","emdash"," ">>)
    THEN Split(window_title, <<" ","emdash"," ">>)[1]
    ELSE window_title

\* ClipboardMonitor._get_excel_selection; answer is what the AppleScript
\* returned: <<>> for a failure or "missing value", else a list of texts.
_get_excel_selection(answer) ==
    IF Len(answer) >= 3
    THEN [address |-> answer[1], sheet |-> answer[2], workbook |-> answer[3],
          path |-> IF Len(answer) > 3 THEN answer[4] ELSE None]
    ELSE NoneDict

\* ClipboardMonitor._get_macos_context; front is the answer of the
\* front-window query: <<>> when the query fails or returns nothing, else
\* the list <<application, window title>>.
_get_macos_context(front, answer) ==
    IF Len(front) = 0
    THEN [application |-> Unknown, window_title |-> Unknown,
          document |-> None, excel_selection |-> NoneDict]
    ELSE LET application  == IF Len(front) >= 2 THEN front[1] ELSE Unknown
             window_title == IF Len(front) >= 2 THEN front[2] ELSE Unknown
         IN  [application |-> application, window_title |-> window_title,
              document |-> Monitor_extract_document_name(window_title, application),
              excel_selection |->
                  IF Contains(application, <<"E","x","c","e","l">>)
                  THEN _get_excel_selection(answer) ELSE NoneDict]

\* ClipboardMonitor._get_windows_context
_get_windows_context(front) ==
    IF Len(front) < 2
    THEN [application |-> Unknown, window_title |-> Unknown, document |-> None]
    ELSE [application |-> front[1], window_title |-> front[2],
          document |-> Monitor_extract_document_name(front[2], front[1])]

\* ClipboardMonitor._get_linux_context
_get_linux_context ==
    [application |-> Unknown, window_title |-> Unknown, document |-> None]

\* ClipboardMonitor._get_source_context
_get_source_context(system, front, answer) ==
    CASE system = "Darwin"  -> _get_macos_context(front, answer)
      [] system = "Windows" -> _get_windows_context(front)
      [] system = "Linux"   -> _get_linux_context
      [] OTHER -> [application |-> Unknown, window_title |-> Unknown, document |-> None]

\* ClipboardMonitor._get_preview with max_length = 50
_get_preview(content) ==
    IF Len(content) <= 50 THEN content
    ELSE IF Contains(content, <<"\n">>)
    THEN LET first_line == Split(content, <<"\n">>)[1]
         IN  IF Len(first_line) <= 50 THEN first_line \o <<".",".",".">>
             ELSE SubSeq(first_line, 1, 50) \o <<".",".",".">>
    ELSE SubSeq(content, 1, 50) \o <<".",".",".">>

\* content.count('\n')
CountNewlines(content) == Cardinality({i \in 1..Len(content) : content[i] = "\n"})

\* content[:n]
Prefix(content, n) == SubSeq(content, 1, IF Len(content) < n THEN Len(content) ELSE n)

(***************************************************************************)
(* ClipboardMonitor._detect_data_type.                                     *)
(***************************************************************************)
IsDigit(c) == \E k \in 1..10 : Digits[k] = c

Whitespace == {" ", "\t", "\n", "\r", "\f"}

RECURSIVE LStrip(_)
LStrip(s) == IF s # <<>> /\ Head(s) \in Whitespace THEN LStrip(Tail(s)) ELSE s

RECURSIVE RStrip(_)
RStrip(s) == IF s # <<>> /\ s[Len(s)] \in Whitespace
             THEN RStrip(SubSeq(s, 1, Len(s) - 1)) ELSE s

\* s.strip()
Strip(s) == RStrip(LStrip(s))

\* s.startswith(p)
StartsWith(s, p) == Len(p) <= Len(s) /\ SubSeq(s, 1, Len(p)) = p

\* s.replace(c, '') for a character c
Remove(s, c) == SelectSeq(s, LAMBDA x : x # c)

\* p.isdigit()
AllDigits(p) == p # <<>> /\ \A i \in 1..Len(p) : IsDigit(p[i])

\* digits, single underscores allowed between digits
IsDigitPart(p) ==
    /\ p # <<>>
    /\ IsDigit(p[1]) /\ IsDigit(p[Len(p)])
    /\ \A i \in 1..Len(p) : IsDigit(p[i]) \/ p[i] = "_"
    /\ \A i \in 1..(Len(p) - 1) : ~(p[i] = "_" /\ p[i + 1] = "_")

IsMantissa(p) ==
    \/ IsDigitPart(p)
    \/ \E k \in 1..Len(p) :
          /\ p[k] = "."
          /\ LET a == SubSeq(p, 1, k - 1)
                 b == SubSeq(p, k + 1, Len(p))
             IN  \/ IsDigitPart(a) /\ (b = <<>> \/ IsDigitPart(b))
                 \/ a = <<>> /\ IsDigitPart(b)

Unsigned(p) == IF p # <<>> /\ Head(p) \in {"+", "-"} THEN Tail(p) ELSE p

\* float(p) does not raise
IsFloat(p) ==
    LET q == Unsigned(Strip(p))
    IN  \/ Lower(q) \in {<<"i","n","f">>, <<"i","n","f","i","n","i","t","y">>, <<"n","a","n">>}
        \/ IsMantissa(q)
        \/ \E k \in 1..Len(q) :
              /\ q[k] \in {"e", "E"}
              /\ IsMantissa(SubSeq(q, 1, k - 1))
              /\ IsDigitPart(Unsigned(SubSeq(q, k + 1, Len(q))))

IsEmail(content) ==
    /\ Contains(content, <<"@">>)
    /\ LET parts == Split(content, <<"@">>)
       IN  Contains(parts[Len(parts)], <<".">>)

IsPhone(content) ==
    LET digits == SelectSeq(content, IsDigit)
    IN  7 <= Len(digits) /\ Len(digits) <= 15

IsUrl(content) ==
    LET content_lower == Strip(Lower(content))
    IN  \E p \in {<<"h","t","t","p",":","/","/">>, <<"h","t","t","p","s",":","/","/">>, <<"w","w","w",".">>} :
            StartsWith(content_lower, p)

IsNumber(content) == IsFloat(Strip(Remove(Remove(content, ","), "$")))

IsDate(content) ==
    /\ Contains(content, <<"/">>) \/ Contains(content, <<"-">>)
    /\ Len(content) < 20
    /\ LET parts == Split([i \in 1..Len(content) |->
                              IF content[i] = "/" THEN "-" ELSE content[i]], <<"-">>)
       IN  Len(parts) = 3 /\ \A i \in 1..3 : AllDigits(Strip(parts[i]))

\* Faulty variant of _detect_data_type: no type for content that no rule
\* recognises
_detect_data_type_partial(content) ==
    IF IsEmail(content) THEN "email"
    ELSE IF IsPhone(content) THEN "phone"
    ELSE IF IsUrl(content) THEN "url"
    ELSE IF IsNumber(content) THEN "number"
    ELSE IF IsDate(content) THEN "date"
    ELSE IF Contains(content, <<"\n">>) \/ Contains(content, <<"\t">>)
    THEN IF Contains(content, <<"\t">>) THEN "tabular" ELSE "multiline"
    ELSE "none"

\* Faulty variant of _detect_data_type: the newline is looked for before
\* the tab
_detect_data_type_newline_first(content) ==
    IF IsEmail(content) THEN "email"
    ELSE IF IsPhone(content) THEN "phone"
    ELSE IF IsUrl(content) THEN "url"
    ELSE IF IsNumber(content) THEN "number"
    ELSE IF IsDate(content) THEN "date"
    ELSE IF Contains(content, <<"\n">>) THEN "multiline"
    ELSE IF Contains(content, <<"\t">>) THEN "tabular"
    ELSE "text"

_detect_data_type(content) ==
    IF IsEmail(content) THEN "email"
    ELSE IF IsPhone(content) THEN "phone"
    ELSE IF IsUrl(content) THEN "url"
    ELSE IF IsNumber(content) THEN "number"
    ELSE IF IsDate(content) THEN "date"
    ELSE IF Contains(content, <<"\n">>) \/ Contains(content, <<"\t">>)
    THEN IF Contains(content, <<"\t">>) THEN "tabular" ELSE "multiline"
    ELSE "text"

(***************************************************************************)
(* ProcessCaptureService: pure helpers.                                    *)
(***************************************************************************)
\* The keys of the handlers dict of capture_paste_destination, in order.
HandlerKeys == <<<<"E","x","c","e","l">>, <<"W","o","r","d">>, <<"P","o","w","e","r","P","o","i","n","t">>, <<"C","h","r","o","m","e">>, <<"S","a","f","a","r","i">>, <<"F","i","r","e","f","o","x">>, <<"E","d","g","e">>>>
Handlers == <<"excel", "word", "powerpoint", "browser", "browser", "browser", "browser">>

\* Faulty variant of FindHandler: the last key that occurs wins
FindHandlerLast(app_name) ==
    LET app_lower == Lower(app_name)
        matches == {k \in 1..Len(HandlerKeys) : Contains(app_lower, Lower(HandlerKeys[k]))}
    IN  IF matches # {}
        THEN Handlers[CHOOSE k \in matches : \A j \in matches : k >= j]
        ELSE "generic"

\* capture_paste_destination: the handler chosen for a str app_name, that of
\* the first key that occurs in it
FindHandler(app_name) ==
    LET app_lower == Lower(app_name)
        matches == {k \in 1..Len(HandlerKeys) : Contains(app_lower, Lower(HandlerKeys[k]))}
    IN  IF matches # {}
        THEN Handlers[CHOOSE k \in matches : \A j \in matches : k <= j]
        ELSE "generic"

\* ProcessCaptureService._extract_document_name, for a window_title that is
\* None or a str.  The second and third pattern are the literals of the
\* source file, each the three characters U+201A U+00C4 U+00EE (U+00EC)
\* between spaces; the file holds no U+2014 and no U+2013.
_extract_document_name(window_title, app_name) ==
    IF ~Truthy(window_title) THEN <<"U","n","t","i","t","l","e","d">>
    ELSE LET suffixes == << <<" ","-"," ">> \o app_name,
                            <<" ","U+201A","U+00C4","U+00EE"," ">> \o app_name,
                            <<" ","U+201A","U+00C4","U+00EC"," ">> \o app_name,
                            <<" ","-"," ","M","i","c","r","o","s","o","f","t">>,
                            <<" ","-"," ","G","o","o","g","l","e">>,
                            <<" ","-"," ","A","d","o","b","e">> >>
         IN  IF \E k \in 1..6 : Contains(window_title, suffixes[k])
             THEN LET k == CHOOSE k \in 1..6 :
                               /\ Contains(window_title, suffixes[k])
                               /\ \A j \in 1..(k - 1) : ~Contains(window_title, suffixes[j])
                  IN  Split(window_title, suffixes[k])[1]
             ELSE window_title

\* _capture_excel_destination; excel is excel_capture.excel, answer what the
\* selection query returned (<<>> when it raised):
\* <<address, sheet, workbook name, workbook path>>
_capture_excel_destination(app_name, window_title, excel, system, answer) ==
    LET destination == [application |-> app_name, window |-> window_title,
                        type |-> "spreadsheet"]
    IN  IF excel /\ system \in {"Windows", "Darwin"} /\ Len(answer) >= 4
        THEN [document |-> answer[3],
              location |-> [sheet |-> answer[2], address |-> answer[1],
                            type |-> "cell_range"],
              path |-> answer[4]] @@ destination
        ELSE destination

\* _capture_word_destination; answer is <<>> when the query failed, else
\* <<document name, path, page, paragraph>> on macOS (possibly shorter) and
\* <<document name, full name, page, line>> on Windows
_capture_word_destination(app_name, window_title, system, answer) ==
    LET destination == [application |-> app_name, window |-> window_title,
                        type |-> "document",
                        document |-> _extract_document_name(window_title, <<"W","o","r","d">>)]
    IN  IF system = "Darwin" /\ answer # <<>>
        THEN [document |-> answer[1],
              location |-> [page |-> IF Len(answer) > 2 THEN answer[3] ELSE Unknown,
                            paragraph |-> IF Len(answer) > 3 THEN answer[4] ELSE Unknown,
                            type |-> "text_position"],
              path |-> IF Len(answer) > 1 THEN answer[2] ELSE None] @@ destination
        ELSE IF system = "Windows" /\ Len(answer) >= 4
        THEN [document |-> answer[1],
              location |-> [page |-> answer[3], line |-> answer[4],
                            type |-> "text_position"],
              path |-> answer[2]] @@ destination
        ELSE destination

\* _capture_powerpoint_destination; answer is <<>> when the query failed,
\* else <<presentation name, slide>> on macOS (possibly shorter) and
\* <<presentation name, slide, full name>> on Windows
_capture_powerpoint_destination(app_name, window_title, system, answer) ==
    LET destination == [application |-> app_name, window |-> window_title,
                        type |-> "presentation",
                        document |-> _extract_document_name(window_title, <<"P","o","w","e","r","P","o","i","n","t">>)]
    IN  IF system = "Darwin" /\ answer # <<>>
        THEN [document |-> answer[1],
              location |-> [slide |-> IF Len(answer) > 1 THEN answer[2] ELSE Unknown,
                            type |-> "slide"]] @@ destination
        ELSE IF system = "Windows" /\ Len(answer) >= 3
        THEN [document |-> answer[1],
              location |-> [slide |-> answer[2], type |-> "slide"],
              path |-> answer[3]] @@ destination
        ELSE destination

\* The web_apps dict of _capture_browser_destination, in order.
WebAppKeys == <<
    <<"s","a","l","e","s","f","o","r","c","e">>,
    <<"a","c","t","i","v","e","c","a","m","p","a","i","g","n">>,
    <<"w","o","r","d","p","r","e","s","s">>,
    <<"g","m","a","i","l">>,
    <<"d","o","c","s",".","g","o","o","g","l","e">>,
    <<"s","h","e","e","t","s",".","g","o","o","g","l","e">>,
    <<"n","o","t","i","o","n">>,
    <<"a","i","r","t","a","b","l","e">>,
    <<"h","u","b","s","p","o","t">>,
    <<"s","l","a","c","k">>,
    <<"t","r","e","l","l","o">>,
    <<"j","i","r","a">> >>
WebAppNames == <<
    <<"S","a","l","e","s","f","o","r","c","e">>,
    <<"A","c","t","i","v","e","C","a","m","p","a","i","g","n">>,
    <<"W","o","r","d","P","r","e","s","s">>,
    <<"G","m","a","i","l">>,
    <<"G","o","o","g","l","e"," ","D","o","c","s">>,
    <<"G","o","o","g","l","e"," ","S","h","e","e","t","s">>,
    <<"N","o","t","i","o","n">>,
    <<"A","i","r","t","a","b","l","e">>,
    <<"H","u","b","S","p","o","t">>,
    <<"S","l","a","c","k">>,
    <<"T","r","e","l","l","o">>,
    <<"J","i","r","a">> >>

\* Faulty variant of browser_domain: the last part, the browser's name
browser_domain_last(parts) == parts[Len(parts)]

\* _capture_browser_destination: destination['domain'] for two parts or more
browser_domain(parts) == IF Len(parts) > 2 THEN parts[Len(parts) - 1] ELSE parts[2]

\* _capture_browser_destination, for a window_title that is None or a str
_capture_browser_destination(app_name, window_title) ==
    LET parts == IF Truthy(window_title) THEN Split(window_title, <<" ","-"," ">>)
                 ELSE <<>>
        destination == [application |-> app_name, window |-> window_title,
                        type |-> "web_application"]
        titled == IF Len(parts) >= 2
                  THEN [page_title |-> parts[1],
                        domain |-> browser_domain(parts)] @@ destination
                  ELSE destination
        title_lower == Lower(window_title)
        matches == {k \in 1..Len(WebAppKeys) : Contains(title_lower, WebAppKeys[k])}
        named == IF Len(parts) >= 2 /\ matches # {}
                 THEN [web_app |-> WebAppNames[CHOOSE k \in matches :
                                                  \A j \in matches : k <= j]] @@ titled
                 ELSE titled
    IN  [location |-> [page |-> Get(named, "page_title", Unknown),
                       type |-> "web_form"]] @@ named

\* _capture_generic_destination, for a window_title that is None or a str
_capture_generic_destination(app_name, window_title, now) ==
    [application |-> app_name,
     window |-> window_title,
     type |-> "unknown",
     document |-> _extract_document_name(window_title, app_name),
     location |-> [type |-> "unknown", timestamp |-> isoformat(now)]]

\* Faulty variant of _infer_app_type: no type for a name it does not know
_infer_app_type_nullable(app_name) ==
    LET app_lower == IF Truthy(app_name) THEN Lower(app_name) ELSE <<>>
        has(w) == Contains(app_lower, w)
    IN  IF has(<<"e","x","c","e","l">>) \/ has(<<"s","h","e","e","t","s">>) THEN "spreadsheet"
        ELSE IF has(<<"w","o","r","d">>) \/ has(<<"d","o","c","s">>) THEN "document"
        ELSE IF has(<<"p","o","w","e","r","p","o","i","n","t">>) \/ has(<<"s","l","i","d","e","s">>) THEN "presentation"
        ELSE IF \E browser \in {<<"c","h","r","o","m","e">>, <<"s","a","f","a","r","i">>, <<"f","i","r","e","f","o","x">>, <<"e","d","g","e">>} :
                    has(browser)
        THEN "web_application"
        ELSE IF has(<<"c","o","d","e">>) \/ has(<<"s","u","b","l","i","m","e">>) \/ has(<<"a","t","o","m">>) THEN "code_editor"
        ELSE "none"

\* ProcessCaptureService._infer_app_type
_infer_app_type(app_name) ==
    LET app_lower == IF Truthy(app_name) THEN Lower(app_name) ELSE <<>>
        has(w) == Contains(app_lower, w)
    IN  IF has(<<"e","x","c","e","l">>) \/ has(<<"s","h","e","e","t","s">>) THEN "spreadsheet"
        ELSE IF has(<<"w","o","r","d">>) \/ has(<<"d","o","c","s">>) THEN "document"
        ELSE IF has(<<"p","o","w","e","r","p","o","i","n","t">>) \/ has(<<"s","l","i","d","e","s">>) THEN "presentation"
        ELSE IF \E browser \in {<<"c","h","r","o","m","e">>, <<"s","a","f","a","r","i">>, <<"f","i","r","e","f","o","x">>, <<"e","d","g","e">>} :
                    has(browser)
        THEN "web_application"
        ELSE IF has(<<"c","o","d","e">>) \/ has(<<"s","u","b","l","i","m","e">>) \/ has(<<"a","t","o","m">>) THEN "code_editor"
        ELSE "unknown"

\* ProcessCaptureService._format_location, for a context that is a dict
_format_location(context) ==
    LET app == Get(context, "application", Unknown)
        doc == Get(context, "document", <<>>)
        type == Get(context, "type", "none")
        located == "location" \in DOMAIN context
        loc == context.location
    IN  IF type = "spreadsheet" /\ located
        THEN Format(Or(doc, app)) \o <<"!">> \o Format(Get(loc, "sheet", <<>>))
                 \o <<"!">> \o Format(Get(loc, "address", <<>>))
        ELSE IF type = "document" /\ located
        THEN Format(Or(doc, app)) \o <<" ","(","P","a","g","e"," ">> \o Format(Get(loc, "page", <<"?">>))
                 \o <<","," ","P","a","r","a"," ">> \o Format(Get(loc, "paragraph", <<"?">>)) \o <<")">>
        ELSE IF type = "presentation" /\ located
        THEN Format(Or(doc, app)) \o <<" ","(","S","l","i","d","e"," ">> \o Format(Get(loc, "slide", <<"?">>))
                 \o <<")">>
        ELSE IF type = "web_application"
        THEN Format(Get(context, "web_app", Get(context, "domain", app))) \o <<":"," ">>
                 \o Format(Get(context, "page_title", <<"U","n","k","n","o","w","n"," ","p","a","g","e">>))
        ELSE Or(doc, app)

\* Faulty variant of _detect_transformation: the table is read with source
\* and destination exchanged
_detect_transformation_swapped(source_type, dest_type) ==
    CASE dest_type = "spreadsheet" /\ source_type = "document" -> "table_to_text"
      [] dest_type = "spreadsheet" /\ source_type = "presentation" -> "data_to_slide"
      [] dest_type = "spreadsheet" /\ source_type = "web_application" -> "data_to_form"
      [] dest_type = "document" /\ source_type = "spreadsheet" -> "text_to_cells"
      [] dest_type = "document" /\ source_type = "presentation" -> "text_to_slide"
      [] dest_type = "document" /\ source_type = "web_application" -> "text_to_form"
      [] dest_type = "web_application" /\ source_type = "spreadsheet" -> "web_to_data"
      [] dest_type = "web_application" /\ source_type = "document" -> "web_to_text"
      [] OTHER -> "direct_paste"

\* ProcessCaptureService._detect_transformation
_detect_transformation(source_type, dest_type) ==
    CASE source_type = "spreadsheet" /\ dest_type = "document" -> "table_to_text"
      [] source_type = "spreadsheet" /\ dest_type = "presentation" -> "data_to_slide"
      [] source_type = "spreadsheet" /\ dest_type = "web_application" -> "data_to_form"
      [] source_type = "document" /\ dest_type = "spreadsheet" -> "text_to_cells"
      [] source_type = "document" /\ dest_type = "presentation" -> "text_to_slide"
      [] source_type = "document" /\ dest_type = "web_application" -> "text_to_form"
      [] source_type = "web_application" /\ dest_type = "spreadsheet" -> "web_to_data"
      [] source_type = "web_application" /\ dest_type = "document" -> "web_to_text"
      [] OTHER -> "direct_paste"

(***************************************************************************)
(* State.                                                                  *)
(***************************************************************************)
VARIABLES
    platform,            \* platform.system()
    pyperclip,           \* whether the clipboard library was imported
    clock,               \* datetime.now()
    monitoring,          \* ClipboardMonitor.monitoring
    monitor_pc,          \* position of the monitor thread in _monitor_loop
    current_clipboard,   \* local of _monitor_loop
    last_clipboard,      \* ClipboardMonitor.last_clipboard
    clipboard_history,   \* ClipboardMonitor.clipboard_history (the ledger)
    event_queue,         \* the shared queue.Queue
    recorded,            \* log: every call of _handle_clipboard_change that
                         \* reached the append, as [raw, event]
    service_pc,          \* position of the main thread in run()
    running,             \* ProcessCaptureService.running
    excel,               \* ExcelCapture.excel is set
    last_selection,      \* ExcelCapture.last_selection
    websocket,           \* ProcessCaptureService.websocket: "none" or "open"
    electron_connected,  \* ProcessCaptureService.electron_connected
    listener,            \* the listen_for_commands task
    inbox,               \* messages the GUI has sent, not yet received
    commands_sent,       \* log: number of messages the GUI has sent
    handler_pc,          \* position of capture_paste_destination
    paste_timestamp,     \* its argument
    destination_context, \* its local
    paste_log,           \* log: every paste event dict that was created
    handled,             \* log: every message the listener received, as
                         \* [message, outcome]
    last_send,           \* log: the latest call of send_to_electron, as
                         \* [event, outcome]
    call,                \* a helper called on its own: its name and arguments
    returned             \* what that call returned

monitorVars == <<monitoring, monitor_pc, current_clipboard, last_clipboard,
                 clipboard_history, recorded>>
envVars == <<platform, pyperclip>>
excelVars == <<excel, last_selection>>
transportVars == <<websocket, electron_connected, last_send>>
handlerVars == <<listener, inbox, commands_sent, handler_pc, paste_timestamp,
                 destination_context, paste_log, handled>>
serviceVars == <<service_pc, running, excelVars, transportVars, handlerVars>>
callVars == <<call, returned>>
vars == <<envVars, clock, monitorVars, event_queue, serviceVars, callVars>>

(***************************************************************************)
(* ClipboardMonitor: the polling thread.                                   *)
(***************************************************************************)
\* The event dict built by _handle_clipboard_change
clipboard_event(content, source_context, now) ==
    LET event == [type            |-> "clipboard_copy",
                  timestamp       |-> isoformat(now),
                  content         |-> Prefix(content, 1000),
                  content_preview |-> _get_preview(content),
                  data_type       |-> _detect_data_type(content),
                  source          |-> source_context,
                  length          |-> Len(content),
                  lines           |-> IF Contains(content, <<"\n">>)
                                      THEN CountNewlines(content) + 1 ELSE 1]
    IN  IF Get(source_context, "excel_selection", NoneDict) # NoneDict
        THEN [excel_cells |-> source_context.excel_selection] @@ event
        ELSE event

\* ClipboardMonitor.start
StartMonitor ==
    /\ monitor_pc = "new"
    /\ pyperclip
    /\ monitoring' = TRUE
    /\ monitor_pc' = "while"
    /\ UNCHANGED <<current_clipboard, last_clipboard, clipboard_history, recorded>>

\* ClipboardMonitor.start without the clipboard library: returns False
StartDisabled ==
    /\ monitor_pc = "new"
    /\ ~pyperclip
    /\ monitor_pc' = "disabled"
    /\ UNCHANGED <<monitoring, current_clipboard, last_clipboard,
                   clipboard_history, recorded>>

\* ClipboardMonitor.stop
StopMonitor ==
    /\ monitoring
    /\ monitoring' = FALSE
    /\ UNCHANGED <<monitor_pc, current_clipboard, last_clipboard,
                   clipboard_history, recorded>>

\* Faulty variant of MonitorWhile: a loop that does not look at the flag
MonitorWhileForever ==
    /\ monitor_pc = "while"
    /\ monitor_pc' = "paste"
    /\ UNCHANGED <<monitoring, current_clipboard, last_clipboard,
                   clipboard_history, recorded>>

\* _monitor_loop: the test of the while loop (after the sleep)
MonitorWhile ==
    /\ monitor_pc = "while"
    /\ monitor_pc' = IF monitoring THEN "paste" ELSE "exited"
    /\ UNCHANGED <<monitoring, current_clipboard, last_clipboard,
                   clipboard_history, recorded>>

\* _monitor_loop: pyperclip.paste() raises; the except clause swallows it
MonitorPasteError ==
    /\ monitor_pc = "paste"
    /\ monitor_pc' = "while"
    /\ UNCHANGED <<monitoring, current_clipboard, last_clipboard,
                   clipboard_history, recorded>>

\* _monitor_loop: current_clipboard = pyperclip.paste()
MonitorPaste(content) ==
    /\ monitor_pc = "paste"
    /\ current_clipboard' = content
    /\ monitor_pc' = "if"
    /\ UNCHANGED <<monitoring, last_clipboard, clipboard_history, recorded>>

\* Faulty variants of the three definitions that follow: a test that forgets
\* the comparison with the remembered content, an insertion at the front, and
\* an eviction of the newest entry.
ChangedOrSame(content, last) == content # <<>>

AddToHistoryFront(history, event) == <<event>> \o history

EvictNewest(history) ==
    IF Len(history) > max_history
    THEN SubSeq(history, 1, Len(history) - 1) ELSE history

\* Faulty variant of Evict: a full ledger is cleared
EvictAll(history) == IF Len(history) > max_history THEN <<>> ELSE history

\* _monitor_loop: the test for a clipboard change
Changed(content, last) == content # <<>> /\ content # last

\* _handle_clipboard_change: the append to the history
AddToHistory(history, event) == Append(history, event)

\* _handle_clipboard_change: the eviction
Evict(history) == IF Len(history) > max_history THEN Tail(history) ELSE history

\* _monitor_loop: on a change _handle_clipboard_change runs up to and
\* including the append; front and answer are what the context queries return
MonitorIf(front, answer) ==
    /\ monitor_pc = "if"
    /\ IF Changed(current_clipboard, last_clipboard)
       THEN LET event == clipboard_event(current_clipboard,
                             _get_source_context(platform, front, answer), clock)
            IN  /\ clipboard_history' = AddToHistory(clipboard_history, event)
                /\ recorded' = Append(recorded, [raw |-> current_clipboard,
                                                 event |-> event])
                /\ monitor_pc' = "appended"
       ELSE /\ monitor_pc' = "while"
            /\ UNCHANGED <<clipboard_history, recorded>>
    /\ UNCHANGED <<monitoring, current_clipboard, last_clipboard>>

\* Faulty variant of MonitorRecorded: the event is not put on the queue
MonitorRecordedNoPut ==
    /\ monitor_pc = "appended"
    /\ clipboard_history' = Evict(clipboard_history)
    /\ event_queue' = event_queue
    /\ last_clipboard' = current_clipboard
    /\ monitor_pc' = "while"
    /\ UNCHANGED <<monitoring, current_clipboard, recorded>>

\* _handle_clipboard_change after the append: eviction and queue put; then
\* _monitor_loop remembers the content
MonitorRecorded ==
    /\ monitor_pc = "appended"
    /\ clipboard_history' = Evict(clipboard_history)
    /\ event_queue' = Append(event_queue, recorded[Len(recorded)].event)
    /\ last_clipboard' = current_clipboard
    /\ monitor_pc' = "while"
    /\ UNCHANGED <<monitoring, current_clipboard, recorded>>

\* time passes; the wall clock is taken never to step back
Tick(limit) ==
    /\ clock < limit
    /\ clock' = clock + 1

(***************************************************************************)
(* The state after construction, and the monitor on its own.               *)
(***************************************************************************)
Platforms == {"Darwin", "Windows", "Linux"}

\* what the front-window query and the Excel selection query may answer
ExcelFront == <<<<"M","i","c","r","o","s","o","f","t"," ","E","x","c","e","l">>, <<"B","o","o","k","1",".","x","l","s","x"," ","-"," ","E","x","c","e","l">>>>
ExcelAnswer == <<<<"A","1",":","B","2">>, <<"Q","1">>, <<"S","a","l","e","s",".","x","l","s","x">>, <<"/","d","/","S","a","l","e","s",".","x","l","s","x">>>>

Contents == {<<>>, <<"h","i">>, <<"4","2">>}
Fronts == {<<>>, ExcelFront}

Init ==
    /\ platform \in Platforms
    /\ pyperclip \in BOOLEAN
    /\ clock = 0
    /\ event_queue = <<>>
    /\ monitoring = FALSE
    /\ monitor_pc = "new"
    /\ current_clipboard = <<>>
    /\ last_clipboard = <<>>
    /\ clipboard_history = <<>>
    /\ recorded = <<>>
    /\ service_pc = "new"
    /\ running = FALSE
    /\ excel = FALSE
    /\ last_selection = None
    /\ websocket = "none"
    /\ electron_connected = FALSE
    /\ last_send = NoneDict
    /\ call = [fn |-> "none"]
    /\ returned = NoneDict
    /\ listener = "none"
    /\ inbox = <<>>
    /\ commands_sent = 0
    /\ handler_pc = "idle"
    /\ paste_timestamp = NoTime
    /\ destination_context = EmptyDict
    /\ paste_log = <<>>
    /\ handled = <<>>

NextLedger ==
    \/ Tick(MaxClock) /\ UNCHANGED <<callVars, envVars, monitorVars, event_queue, serviceVars>>
    \/ StartMonitor /\ UNCHANGED <<callVars, envVars, clock, event_queue, serviceVars>>
    \/ StartDisabled /\ UNCHANGED <<callVars, envVars, clock, event_queue, serviceVars>>
    \/ StopMonitor /\ UNCHANGED <<callVars, envVars, clock, event_queue, serviceVars>>
    \/ MonitorWhile /\ UNCHANGED <<callVars, envVars, clock, event_queue, serviceVars>>
    \/ MonitorPasteError /\ UNCHANGED <<callVars, envVars, clock, event_queue, serviceVars>>
    \/ \E content \in Contents :
          MonitorPaste(content) /\ UNCHANGED <<callVars, envVars, clock, event_queue, serviceVars>>
    \/ \E front \in Fronts :
          /\ Len(recorded) < MaxRecords
          /\ MonitorIf(front, ExcelAnswer)
          /\ UNCHANGED <<callVars, envVars, clock, event_queue, serviceVars>>
    \/ MonitorRecorded /\ UNCHANGED <<callVars, envVars, clock, serviceVars>>

\* the clipboard monitor used on its own: start, polling, stop
SpecLedger == Init /\ [][NextLedger]_vars

(***************************************************************************)
(* ClipboardMonitor: the reads of the ledger.                              *)
(***************************************************************************)
\* ClipboardMonitor.get_last_clipboard
get_last_clipboard(history) ==
    IF history # <<>> THEN history[Len(history)] ELSE NoneDict

\* Faulty variant of find_paste_destination: the scan runs oldest first
find_oldest_before(history, paste_time) ==
    IF \E i \in 1..Len(history) : fromisoformat(history[i].timestamp) <= paste_time
    THEN history[CHOOSE i \in 1..Len(history) :
                    /\ fromisoformat(history[i].timestamp) <= paste_time
                    /\ \A j \in 1..(i - 1) :
                           fromisoformat(history[j].timestamp) > paste_time]
    ELSE NoneDict

\* ClipboardMonitor.find_paste_destination: the scan of reversed(history)
\* returns the first entry met whose time is not after paste_time
find_paste_destination(history, paste_time) ==
    IF \E i \in 1..Len(history) : fromisoformat(history[i].timestamp) <= paste_time
    THEN history[CHOOSE i \in 1..Len(history) :
                    /\ fromisoformat(history[i].timestamp) <= paste_time
                    /\ \A j \in (i + 1)..Len(history) :
                           fromisoformat(history[j].timestamp) > paste_time]
    ELSE NoneDict

(***************************************************************************)
(* ProcessCaptureService: run(), the transport and the paste correlator.   *)
(***************************************************************************)
Incomplete == <<"P","a","s","t","e"," ","o","p","e","r","a","t","i","o","n"," ","(","i","n","c","o","m","p","l","e","t","e"," ","c","o","n","t","e","x","t",")">>

\* Faulty variant of source_of: the Excel selection of the entry is ignored
source_of_inferred(entry) ==
    LET context == Get(entry, "source", EmptyDict)
        application == Get(context, "application", Unknown)
    IN  [application |-> application,
         window      |-> Get(context, "window_title", <<>>),
         content     |-> Get(entry, "content_preview", <<>>),
         data_type   |-> Get(entry, "data_type", "text"),
         document    |-> Get(context, "document", Unknown),
         type        |-> _infer_app_type(application)]

\* _create_unified_paste_event: the source dict built from a ledger entry
source_of(entry) ==
    LET context == Get(entry, "source", EmptyDict)
        excel_info == Get(context, "excel_selection", NoneDict)
        generic == [application |-> Get(context, "application", Unknown),
                    window      |-> Get(context, "window_title", <<>>),
                    content     |-> Get(entry, "content_preview", <<>>),
                    data_type   |-> Get(entry, "data_type", "text")]
    IN  IF excel_info # NoneDict /\ excel_info # EmptyDict
        THEN [document |-> Get(excel_info, "workbook", None),
              location |-> [sheet   |-> Get(excel_info, "sheet", None),
                            address |-> Get(excel_info, "address", None),
                            type    |-> "cell_range"],
              path |-> Get(excel_info, "path", None),
              type |-> "spreadsheet"] @@ generic
        ELSE [document |-> Get(context, "document", Unknown),
              type |-> _infer_app_type(generic.application)] @@ generic

\* Faulty variant of paste_source: the test "if last_clipboard" is lost
paste_source_unguarded(entry) == source_of(entry)

\* _create_unified_paste_event: paste_event['source'], None unless
\* get_last_clipboard returned an entry
paste_source(entry) ==
    IF entry = NoneDict \/ entry = EmptyDict THEN NoneDict ELSE source_of(entry)

\* Faulty variant of HasFlow: the data flow is never described
HasFlowNever(source, destination) == FALSE

\* _create_unified_paste_event: the test "source and destination"
HasFlow(source, destination) == source # NoneDict /\ destination # EmptyDict

\* The paste_event dict built by _create_unified_paste_event from the entry
\* get_last_clipboard returned (NoneDict when it returned None)
unified_paste_event(entry, timestamp, destination, now) ==
    LET source == paste_source(entry)
        complete == HasFlow(source, destination)
        src_desc == _format_location(source)
        dst_desc == _format_location(destination)
    IN  [type            |-> "cross_app_paste",
         timestamp       |-> isoformat(now),
         paste_timestamp |-> timestamp,
         source          |-> source,
         destination     |-> destination,
         data_flow       |-> IF complete
                             THEN [from |-> src_desc, to |-> dst_desc,
                                   transformation |->
                                       _detect_transformation(source.type,
                                                              destination.type)]
                             ELSE EmptyDict,
         description     |-> IF complete
                             THEN <<"P","a","s","t","e","d"," ","f","r","o","m"," ">> \o Format(src_desc)
                                      \o <<" ","t","o"," ">> \o Format(dst_desc)
                             ELSE Incomplete]

\* Faulty variant of send_to_electron: a failed send leaves
\* electron_connected as it is
send_to_electron_unmarked(event, delivered) ==
    IF websocket = "open" /\ electron_connected
    THEN /\ last_send' = [event |-> event,
                          outcome |-> IF delivered THEN "sent" ELSE "failed"]
         /\ UNCHANGED electron_connected
    ELSE /\ last_send' = [event |-> event, outcome |-> "dropped"]
         /\ UNCHANGED electron_connected

\* Faulty variant of send_to_electron: the send is tried on any open socket,
\* whatever electron_connected says
send_to_electron_unguarded(event, delivered) ==
    IF websocket = "open"
    THEN IF delivered
         THEN /\ last_send' = [event |-> event, outcome |-> "sent"]
              /\ electron_connected' = TRUE
         ELSE /\ last_send' = [event |-> event, outcome |-> "failed"]
              /\ electron_connected' = FALSE
    ELSE /\ last_send' = [event |-> event, outcome |-> "dropped"]
         /\ UNCHANGED electron_connected

\* send_to_electron(event); delivered says whether websocket.send succeeds
send_to_electron(event, delivered) ==
    IF websocket = "open" /\ electron_connected
    THEN IF delivered
         THEN /\ last_send' = [event |-> event, outcome |-> "sent"]
              /\ UNCHANGED electron_connected
         ELSE /\ last_send' = [event |-> event, outcome |-> "failed"]
              /\ electron_connected' = FALSE
    ELSE /\ last_send' = [event |-> event, outcome |-> "dropped"]
         /\ UNCHANGED electron_connected

\* The event dict built by _capture_windows_excel and _capture_macos_excel.
\* The values and formulas of the cells are not modelled.
excel_selection_event(answer, now) ==
    [type      |-> "excel_selection",
     timestamp |-> isoformat(now),
     address   |-> answer[1],
     sheet     |-> answer[2],
     workbook  |-> answer[3]]

\* Faulty variant of capture_selection: the address is not compared with
\* last_selection
capture_selection_always(answer) ==
    IF excel /\ platform \in {"Windows", "Darwin"} /\ Len(answer) >= 4
    THEN /\ last_selection' = answer[1]
         /\ event_queue' = Append(event_queue, excel_selection_event(answer, clock))
    ELSE UNCHANGED <<last_selection, event_queue>>

\* ExcelCapture.capture_selection; answer is what the selection queries
\* returned, <<address, sheet, workbook, value>>, cut short where one of
\* them raised (<<>> when the first did).  _capture_windows_excel sets
\* last_selection as soon as it has the address and reads the rest
\* (sheet.Name, workbook.Name, workbook.FullName, selection.Count) while it
\* builds the event, inside the try whose except only prints;
\* _capture_macos_excel gets all four in one script result and does nothing
\* with a result of fewer than four parts.
capture_selection(answer) ==
    IF /\ excel /\ platform = "Windows"
       /\ Len(answer) >= 1 /\ answer[1] # last_selection
    THEN /\ last_selection' = answer[1]
         /\ IF Len(answer) >= 4
            THEN event_queue' = Append(event_queue, excel_selection_event(answer, clock))
            ELSE UNCHANGED event_queue
    ELSE IF /\ excel /\ platform = "Darwin"
            /\ Len(answer) >= 4 /\ answer[1] # last_selection
    THEN /\ last_selection' = answer[1]
         /\ event_queue' = Append(event_queue, excel_selection_event(answer, clock))
    ELSE UNCHANGED <<last_selection, event_queue>>

\* run(): clipboard_monitor.start()
RunStartClipboard ==
    /\ service_pc = "new"
    /\ StartMonitor \/ StartDisabled
    /\ service_pc' = "excel"
    /\ UNCHANGED <<running, excelVars, transportVars, handlerVars, event_queue>>

\* run(): excel_capture.connect(); found says whether Excel answered
RunExcelConnect(found) ==
    /\ service_pc = "excel"
    /\ excel' = (found /\ platform \in {"Windows", "Darwin"})
    /\ service_pc' = "connect"
    /\ UNCHANGED <<running, last_selection, transportVars, handlerVars,
                   monitorVars, event_queue>>

\* connect_to_electron() awaited on an event loop that keeps running, then
\* running = True and the event thread.
\* outcome: "refused" (websockets.connect raises), "handshake" (the
\* handshake send raises) or "connected" (the listener task is created and
\* runs).  run() itself calls it through asyncio.run: see RunAsyncioRun.
RunConnect(outcome) ==
    /\ service_pc = "connect"
    /\ websocket' = IF outcome = "refused" THEN "none" ELSE "open"
    /\ electron_connected' = (outcome = "connected")
    /\ listener' = IF outcome = "connected" THEN "listening" ELSE "none"
    /\ running' = TRUE
    /\ service_pc' = "running"
    /\ UNCHANGED <<excelVars, last_send, inbox, commands_sent, handler_pc,
                   paste_timestamp, destination_context, paste_log, handled,
                   monitorVars, event_queue>>

\* run(): asyncio.run(self.connect_to_electron()), then running = True and
\* the event thread.  asyncio.run returns when connect_to_electron returns;
\* before it closes the loop it cancels every task still pending on it, and
\* the listener task created by connect_to_electron is one.
RunAsyncioRun(outcome) ==
    /\ service_pc = "connect"
    /\ websocket' = IF outcome = "refused" THEN "none" ELSE "open"
    /\ electron_connected' = (outcome = "connected")
    /\ listener' = IF outcome = "connected" THEN "cancelled" ELSE "none"
    /\ running' = TRUE
    /\ service_pc' = "running"
    /\ UNCHANGED <<excelVars, last_send, inbox, commands_sent, handler_pc,
                   paste_timestamp, destination_context, paste_log, handled,
                   monitorVars, event_queue>>

\* run(): KeyboardInterrupt
RunInterrupt ==
    /\ service_pc = "running"
    /\ running' = FALSE
    /\ monitoring' = FALSE
    /\ service_pc' = "stopped"
    /\ UNCHANGED <<excelVars, transportVars, handlerVars, monitor_pc,
                   current_clipboard, last_clipboard, clipboard_history,
                   recorded, event_queue>>

\* process_events: one iteration that finds an event in the queue
ProcessEvent(delivered) ==
    /\ running
    /\ event_queue # <<>>
    /\ event_queue' = Tail(event_queue)
    /\ IF electron_connected
       THEN send_to_electron(Head(event_queue), delivered)
       ELSE UNCHANGED <<electron_connected, last_send>>
    /\ UNCHANGED <<service_pc, running, excelVars, websocket, handlerVars, monitorVars>>

\* the GUI sends a command over the open connection
GuiSend(command) ==
    /\ websocket = "open"
    /\ listener = "listening"
    /\ inbox' = Append(inbox, command)
    /\ commands_sent' = commands_sent + 1
    /\ UNCHANGED <<service_pc, running, excelVars, transportVars, listener,
                   handler_pc, paste_timestamp, destination_context, paste_log,
                   handled,
                   monitorVars, event_queue>>

\* the GUI sends a message over the connection, whether or not a listener
\* is there to receive it
GuiSendAny(message) ==
    /\ websocket = "open"
    /\ inbox' = Append(inbox, message)
    /\ commands_sent' = commands_sent + 1
    /\ UNCHANGED <<service_pc, running, excelVars, transportVars, listener,
                   handler_pc, paste_timestamp, destination_context, paste_log,
                   handled, monitorVars, event_queue>>

\* listen_for_commands: the connection is closed
ConnectionClosed ==
    /\ listener = "listening"
    /\ handler_pc = "idle"
    /\ listener' = "closed"
    /\ electron_connected' = FALSE
    /\ UNCHANGED <<service_pc, running, excelVars, websocket, last_send, inbox,
                   commands_sent, handler_pc, paste_timestamp,
                   destination_context, paste_log, handled, monitorVars,
                   event_queue>>

\* capture_paste_destination: whether the handler raises (a window title that
\* is a number has no split and cannot be searched for a suffix)
HandlerRaises(handler, window_title) == handler # "excel" /\ IsInt(window_title)

\* capture_paste_destination: the call of the handler
CallHandler(handler, app_name, window_title, answer) ==
    CASE handler = "excel" ->
             _capture_excel_destination(app_name, window_title, excel, platform, answer)
      [] handler = "word" ->
             _capture_word_destination(app_name, window_title, platform, answer)
      [] handler = "powerpoint" ->
             _capture_powerpoint_destination(app_name, window_title, platform, answer)
      [] handler = "browser" ->
             _capture_browser_destination(app_name, window_title)
      [] OTHER ->
             _capture_generic_destination(app_name, window_title, clock)

\* what the automation query of a destination handler may answer
HandlerAnswers(handler) ==
    CASE handler = "excel" ->
             {<<>>, <<<<"C","3">>, <<"S","h","e","e","t","2">>, <<"B","u","d","g","e","t",".","x","l","s","x">>, <<"/","d","/","B","u","d","g","e","t",".","x","l","s","x">>>>}
      [] handler = "word" ->
             {<<>>, <<<<"R","e","p","o","r","t",".","d","o","c","x">>, <<"/","d","/","R","e","p","o","r","t",".","d","o","c","x">>, PyInt(<<"2">>), PyInt(<<"5">>)>>}
      [] handler = "powerpoint" ->
             {<<>>, <<<<"D","e","c","k",".","p","p","t","x">>, PyInt(<<"3">>), <<"/","d","/","D","e","c","k",".","p","p","t","x">>>>}
      [] OTHER -> {<<>>}

\* A message that is not a command: text that json.loads rejects, and JSON
\* text whose value is not an object (here an array)
InvalidJson == [malformed |-> "text"]
NotAnObject == [malformed |-> "array"]

\* listen_for_commands: json.loads raises JSONDecodeError
JsonRejects(message) == Get(message, "malformed", "no") = "text"

\* handle_command: command.get raises (the value has no get)
GetRaises(message) == Get(message, "malformed", "no") = "array"

\* Faulty variant of IsPasteCommand: a command without a type counts as a
\* paste command
IsPasteCommandOrUntyped(command) ==
    Get(command, "type", "capture_paste_destination") = "capture_paste_destination"

\* handle_command: the test of cmd_type
IsPasteCommand(command) == Get(command, "type", "none") = "capture_paste_destination"

\* listen_for_commands receives a message; handle_command and
\* capture_paste_destination run up to the return of the handler.
\* selection and answer are what the automation queries return.
HandleCommand ==
    /\ listener = "listening"
    /\ handler_pc = "idle"
    /\ inbox # <<>>
    /\ inbox' = Tail(inbox)
    /\ LET command == Head(inbox)
           app_name == Get(command, "application", Unknown)
           window == Get(command, "window", <<>>)
           handler == FindHandler(app_name)
           outcome(o) == handled' = Append(handled, [message |-> command,
                                                     outcome |-> o])
       IN  IF JsonRejects(command)
           THEN /\ outcome("rejected")
                /\ UNCHANGED <<listener, handler_pc, paste_timestamp,
                               destination_context, last_selection, event_queue>>
           ELSE IF GetRaises(command)
           THEN /\ outcome("raised")
                /\ listener' = "raised"
                /\ UNCHANGED <<handler_pc, paste_timestamp, destination_context,
                               last_selection, event_queue>>
           ELSE IF ~IsPasteCommand(command)
           THEN /\ outcome("ignored")
                /\ UNCHANGED <<listener, handler_pc, paste_timestamp,
                               destination_context, last_selection, event_queue>>
           ELSE IF ~IsStr(app_name) \/ HandlerRaises(handler, window)
           THEN /\ outcome("raised")
                /\ listener' = "raised"
                /\ UNCHANGED <<handler_pc, paste_timestamp, destination_context,
                               last_selection, event_queue>>
           ELSE /\ outcome("correlated")
                /\ IF handler = "excel"
                   THEN \E selection \in HandlerAnswers("excel") :
                            capture_selection(selection)
                   ELSE UNCHANGED <<last_selection, event_queue>>
                /\ \E answer \in HandlerAnswers(handler) :
                       destination_context' =
                           CallHandler(handler, app_name, window, answer)
                /\ paste_timestamp' = Get(command, "timestamp", NoTime)
                /\ handler_pc' = "create"
                /\ UNCHANGED listener
    /\ UNCHANGED <<service_pc, running, excel, transportVars, commands_sent,
                   paste_log, monitorVars>>

\* Faulty variant of SourceEntry: the newest entry not after the paste
SourceEntryBefore(history, timestamp) == find_paste_destination(history, timestamp)

\* the ledger read of _create_unified_paste_event
SourceEntry(history, timestamp) == get_last_clipboard(history)

\* Faulty variant of CreateUnifiedPasteEvent: the event is put on the event
\* queue instead of being sent
CreateUnifiedPasteEventQueued(delivered) ==
    /\ handler_pc = "create"
    /\ LET paste_event == unified_paste_event(
                              SourceEntry(clipboard_history, paste_timestamp),
                              paste_timestamp, destination_context, clock)
       IN  /\ paste_log' = Append(paste_log, paste_event)
           /\ event_queue' = Append(event_queue, paste_event)
    /\ handler_pc' = "idle"
    /\ paste_timestamp' = NoTime
    /\ destination_context' = EmptyDict
    /\ UNCHANGED <<service_pc, running, excelVars, transportVars, listener, inbox,
                   commands_sent, handled, monitorVars>>

\* Faulty variant of CreateUnifiedPasteEvent: the source is the newest entry
\* the ledger held when the command was taken, before the destination query
CreateUnifiedPasteEventEarly(delivered) ==
    /\ handler_pc = "create"
    /\ LET entry == IF call.recorded = 0 THEN NoneDict
                    ELSE recorded[call.recorded].event
           paste_event == unified_paste_event(entry, paste_timestamp,
                                              destination_context, clock)
       IN  /\ paste_log' = Append(paste_log, paste_event)
           /\ send_to_electron(paste_event, delivered)
    /\ handler_pc' = "idle"
    /\ paste_timestamp' = NoTime
    /\ destination_context' = EmptyDict
    /\ UNCHANGED <<service_pc, running, excelVars, websocket, listener, inbox,
                   commands_sent, handled, monitorVars, event_queue>>

\* Faulty variant of CreateUnifiedPasteEvent: the entry used as the source is
\* taken out of the ledger
CreateUnifiedPasteEventConsuming(delivered) ==
    /\ handler_pc = "create"
    /\ LET paste_event == unified_paste_event(
                              SourceEntry(clipboard_history, paste_timestamp),
                              paste_timestamp, destination_context, clock)
       IN  /\ paste_log' = Append(paste_log, paste_event)
           /\ send_to_electron(paste_event, delivered)
    /\ handler_pc' = "idle"
    /\ paste_timestamp' = NoTime
    /\ destination_context' = EmptyDict
    /\ clipboard_history' = IF clipboard_history = <<>> THEN <<>>
                            ELSE SubSeq(clipboard_history, 1, Len(clipboard_history) - 1)
    /\ UNCHANGED <<service_pc, running, excelVars, websocket, listener, inbox,
                   commands_sent, handled, monitoring, monitor_pc,
                   current_clipboard, last_clipboard, recorded, event_queue>>

\* _create_unified_paste_event
CreateUnifiedPasteEvent(delivered) ==
    /\ handler_pc = "create"
    /\ LET paste_event == unified_paste_event(
                              SourceEntry(clipboard_history, paste_timestamp),
                              paste_timestamp, destination_context, clock)
       IN  /\ paste_log' = Append(paste_log, paste_event)
           /\ send_to_electron(paste_event, delivered)
    /\ handler_pc' = "idle"
    /\ paste_timestamp' = NoTime
    /\ destination_context' = EmptyDict
    /\ UNCHANGED <<service_pc, running, excelVars, websocket, listener, inbox,
                   commands_sent, handled, monitorVars, event_queue>>

(***************************************************************************)
(* The service.                                                            *)
(***************************************************************************)
\* Recordings, commands and largest clock value of the paste specification.
MaxCopies == 2
MaxCommands == 1
PasteClock == 1

ChromeTitle == <<"D","a","s","h","b","o","a","r","d"," ","-"," ","A","c","m","e"," ","C","R","M"," ","-"," ","G","o","o","g","l","e"," ","C","h","r","o","m","e">>

\* the commands the GUI may send at time t
GuiCommands(t) ==
    { [type |-> "capture_paste_destination", timestamp |-> t,
       application |-> <<"M","i","c","r","o","s","o","f","t"," ","E","x","c","e","l">>, window |-> <<"B","u","d","g","e","t",".","x","l","s","x"," ","-"," ","E","x","c","e","l">>],
      [type |-> "capture_paste_destination", timestamp |-> t,
       application |-> <<"M","i","c","r","o","s","o","f","t"," ","W","o","r","d">>, window |-> <<"R","e","p","o","r","t",".","d","o","c","x"," ","-"," ","W","o","r","d">>],
      [type |-> "capture_paste_destination", timestamp |-> t,
       application |-> <<"P","o","w","e","r","P","o","i","n","t">>, window |-> None],
      [type |-> "capture_paste_destination", timestamp |-> t,
       application |-> <<"G","o","o","g","l","e"," ","C","h","r","o","m","e">>, window |-> ChromeTitle],
      [type |-> "capture_paste_destination", timestamp |-> t,
       application |-> <<"G","o","o","g","l","e"," ","C","h","r","o","m","e">>, window |-> PyInt(<<"7">>)],
      [type |-> "capture_paste_destination", timestamp |-> t,
       application |-> None, window |-> ChromeTitle],
      [type |-> "capture_paste_destination"],
      [type |-> "ping"] }

NextPaste ==
    \/ Tick(PasteClock) /\ UNCHANGED <<callVars, envVars, monitorVars, event_queue, serviceVars>>
    \/ RunStartClipboard /\ UNCHANGED <<callVars, envVars, clock>>
    \/ \E found \in BOOLEAN : RunExcelConnect(found) /\ UNCHANGED <<callVars, envVars, clock>>
    \/ \E outcome \in {"refused", "handshake", "connected"} :
          RunConnect(outcome) /\ UNCHANGED <<callVars, envVars, clock>>
    \/ MonitorWhile /\ UNCHANGED <<callVars, envVars, clock, event_queue, serviceVars>>
    \/ \E content \in Contents \ {<<>>} :
          MonitorPaste(content) /\ UNCHANGED <<callVars, envVars, clock, event_queue, serviceVars>>
    \/ /\ Len(recorded) < MaxCopies
       /\ MonitorIf(ExcelFront, ExcelAnswer)
       /\ UNCHANGED <<callVars, envVars, clock, event_queue, serviceVars>>
    \/ MonitorRecorded /\ UNCHANGED <<callVars, envVars, clock, serviceVars>>
    \/ \E delivered \in BOOLEAN : ProcessEvent(delivered) /\ UNCHANGED <<callVars, envVars, clock>>
    \/ \E command \in GuiCommands(clock) :
          /\ commands_sent < MaxCommands
          /\ GuiSend(command)
          /\ UNCHANGED <<callVars, envVars, clock>>
    \/ ConnectionClosed /\ UNCHANGED <<callVars, envVars, clock>>
    \/ HandleCommand /\ UNCHANGED <<callVars, envVars, clock>>
    \/ \E delivered \in BOOLEAN :
          CreateUnifiedPasteEvent(delivered) /\ UNCHANGED <<callVars, envVars, clock>>

\* the service from run() on, with the clipboard monitor, the event thread
\* and the command listener running concurrently
SpecPaste == Init /\ [][NextPaste]_vars

(***************************************************************************)
(* The command listener.                                                   *)
(***************************************************************************)
\* Messages and recordings of the listener specification.
MaxMessages == 2
ListenerCopies == 1

ExcelName == <<"M","i","c","r","o","s","o","f","t"," ","E","x","c","e","l">>
BudgetTitle == <<"B","u","d","g","e","t",".","x","l","s","x"," ","-"," ","E","x","c","e","l">>

\* the messages the GUI may send at time t: two that are no commands, two
\* commands that are no paste commands, two paste commands
ListenerMessages(t) ==
    { InvalidJson,
      NotAnObject,
      [type |-> "ping", timestamp |-> t, application |-> ExcelName,
       window |-> BudgetTitle],
      [timestamp |-> t, application |-> ExcelName, window |-> BudgetTitle],
      [type |-> "capture_paste_destination", timestamp |-> t,
       application |-> ExcelName, window |-> BudgetTitle],
      [type |-> "capture_paste_destination", timestamp |-> t,
       application |-> <<"G","o","o","g","l","e"," ","C","h","r","o","m","e">>, window |-> ChromeTitle] }

NextListener ==
    \/ RunStartClipboard /\ UNCHANGED <<callVars, envVars, clock>>
    \/ \E found \in BOOLEAN : RunExcelConnect(found) /\ UNCHANGED <<callVars, envVars, clock>>
    \/ \E outcome \in {"refused", "handshake", "connected"} :
          RunConnect(outcome) /\ UNCHANGED <<callVars, envVars, clock>>
    \/ MonitorWhile /\ UNCHANGED <<callVars, envVars, clock, event_queue, serviceVars>>
    \/ \E content \in Contents \ {<<>>} :
          MonitorPaste(content) /\ UNCHANGED <<callVars, envVars, clock, event_queue, serviceVars>>
    \/ /\ Len(recorded) < ListenerCopies
       /\ MonitorIf(ExcelFront, ExcelAnswer)
       /\ UNCHANGED <<callVars, envVars, clock, event_queue, serviceVars>>
    \/ MonitorRecorded /\ UNCHANGED <<callVars, envVars, clock, serviceVars>>
    \/ \E message \in ListenerMessages(clock) :
          /\ commands_sent < MaxMessages
          /\ GuiSend(message)
          /\ UNCHANGED <<callVars, envVars, clock>>
    \/ ConnectionClosed /\ UNCHANGED <<callVars, envVars, clock>>
    \/ HandleCommand /\ UNCHANGED <<callVars, envVars, clock>>
    \/ \E delivered \in BOOLEAN :
          CreateUnifiedPasteEvent(delivered) /\ UNCHANGED <<callVars, envVars, clock>>

\* the command listener on an event loop that keeps running, next to the
\* clipboard monitor
SpecListener == Init /\ [][NextListener]_vars

(***************************************************************************)
(* run() as written.                                                       *)
(***************************************************************************)
\* Messages and recordings of the run specification.
RunMessages == 2
RunCopies == 2

NextRun ==
    \/ RunStartClipboard /\ UNCHANGED <<callVars, envVars, clock>>
    \/ \E found \in BOOLEAN : RunExcelConnect(found) /\ UNCHANGED <<callVars, envVars, clock>>
    \/ \E outcome \in {"refused", "handshake", "connected"} :
          RunAsyncioRun(outcome) /\ UNCHANGED <<callVars, envVars, clock>>
    \/ RunInterrupt /\ UNCHANGED <<callVars, envVars, clock>>
    \/ MonitorWhile /\ UNCHANGED <<callVars, envVars, clock, event_queue, serviceVars>>
    \/ \E content \in Contents \ {<<>>} :
          MonitorPaste(content) /\ UNCHANGED <<callVars, envVars, clock, event_queue, serviceVars>>
    \/ /\ Len(recorded) < RunCopies
       /\ MonitorIf(ExcelFront, ExcelAnswer)
       /\ UNCHANGED <<callVars, envVars, clock, event_queue, serviceVars>>
    \/ MonitorRecorded /\ UNCHANGED <<callVars, envVars, clock, serviceVars>>
    \/ \E delivered \in BOOLEAN : ProcessEvent(delivered) /\ UNCHANGED <<callVars, envVars, clock>>
    \/ \E message \in ListenerMessages(clock) :
          /\ commands_sent < RunMessages
          /\ GuiSendAny(message)
          /\ UNCHANGED <<callVars, envVars, clock>>

\* the service as run() starts it
SpecRun == Init /\ [][NextRun]_vars

(***************************************************************************)
(* The monitor classifying what it records.                                *)
(***************************************************************************)
\* Recordings of the classification specification.
TypeRecords == 3

\* what pyperclip.paste() may return: nothing, and a content of each type
TypeTexts ==
    { <<>>,
      <<"j","o","h","n","@","e","x","a","m","p","l","e",".","c","o","m">>,
      <<"5","5","5","-","1","2","3","4","5","6","7">>,
      <<"w","w","w",".","a","c","m","e",".","i","o">>,
      <<"$","1",",","2","3","4",".","5","6">>,
      <<"1","/","1","5","/","2","4">>,
      <<"a","\t","b","\t","c">>,
      <<"a","\n","b">>,
      <<"h","e","l","l","o">> }

NextTypes ==
    \/ StartMonitor /\ UNCHANGED <<callVars, envVars, clock, event_queue, serviceVars>>
    \/ StartDisabled /\ UNCHANGED <<callVars, envVars, clock, event_queue, serviceVars>>
    \/ MonitorWhile /\ UNCHANGED <<callVars, envVars, clock, event_queue, serviceVars>>
    \/ \E content \in TypeTexts :
          MonitorPaste(content) /\ UNCHANGED <<callVars, envVars, clock, event_queue, serviceVars>>
    \/ /\ Len(recorded) < TypeRecords
       /\ MonitorIf(ExcelFront, ExcelAnswer)
       /\ UNCHANGED <<callVars, envVars, clock, event_queue, serviceVars>>
    \/ MonitorRecorded /\ UNCHANGED <<callVars, envVars, clock, serviceVars>>

\* the monitor recording contents of every type
SpecTypes == Init /\ [][NextTypes]_vars

(***************************************************************************)
(* The monitor with failures while a change is handled.                    *)
(***************************************************************************)
\* _handle_clipboard_change raises before the append (on Windows without
\* pywin32 the name win32gui of line 230 is not bound); the except clause of
\* _monitor_loop swallows the exception
MonitorChangeRaises ==
    /\ monitor_pc = "if"
    /\ Changed(current_clipboard, last_clipboard)
    /\ monitor_pc' = "while"
    /\ UNCHANGED <<monitoring, current_clipboard, last_clipboard,
                   clipboard_history, recorded>>

\* _handle_clipboard_change raises in its last statement, the print after
\* the eviction and the queue put (an OSError of a closed stdout); the except
\* clause swallows it and the assignment to last_clipboard is skipped
MonitorPrintRaises ==
    /\ monitor_pc = "appended"
    /\ clipboard_history' = Evict(clipboard_history)
    /\ event_queue' = Append(event_queue, recorded[Len(recorded)].event)
    /\ monitor_pc' = "while"
    /\ UNCHANGED <<monitoring, current_clipboard, last_clipboard, recorded>>

\* Recordings of the failure specification.
FaultRecords == 3

NextFaults ==
    \/ StartMonitor /\ UNCHANGED <<callVars, envVars, clock, event_queue, serviceVars>>
    \/ StartDisabled /\ UNCHANGED <<callVars, envVars, clock, event_queue, serviceVars>>
    \/ StopMonitor /\ UNCHANGED <<callVars, envVars, clock, event_queue, serviceVars>>
    \/ MonitorWhile /\ UNCHANGED <<callVars, envVars, clock, event_queue, serviceVars>>
    \/ MonitorPasteError /\ UNCHANGED <<callVars, envVars, clock, event_queue, serviceVars>>
    \/ \E content \in Contents :
          MonitorPaste(content) /\ UNCHANGED <<callVars, envVars, clock, event_queue, serviceVars>>
    \/ MonitorChangeRaises /\ UNCHANGED <<callVars, envVars, clock, event_queue, serviceVars>>
    \/ \E front \in Fronts :
          /\ Len(recorded) < FaultRecords
          /\ MonitorIf(front, ExcelAnswer)
          /\ UNCHANGED <<callVars, envVars, clock, event_queue, serviceVars>>
    \/ MonitorRecorded /\ UNCHANGED <<callVars, envVars, clock, serviceVars>>
    \/ MonitorPrintRaises /\ UNCHANGED <<callVars, envVars, clock, serviceVars>>

\* the monitor on its own, a tick of which may fail at any of its calls
SpecFaults == Init /\ [][NextFaults]_vars

(***************************************************************************)
(* The monitor and the call of stop().                                     *)
(***************************************************************************)
\* self.clipboard_monitor.stop(); the call is noted with the number of
\* recordings made when the flag was cleared
CallStop ==
    /\ StopMonitor
    /\ call' = [fn |-> "stop", recorded |-> Len(recorded)]
    /\ UNCHANGED returned

\* Recordings of the stop specification.
StopRecords == 3

NextStop ==
    \/ StartMonitor /\ UNCHANGED <<callVars, envVars, clock, event_queue, serviceVars>>
    \/ StartDisabled /\ UNCHANGED <<callVars, envVars, clock, event_queue, serviceVars>>
    \/ CallStop /\ UNCHANGED <<envVars, clock, event_queue, serviceVars>>
    \/ MonitorWhile /\ UNCHANGED <<callVars, envVars, clock, event_queue, serviceVars>>
    \/ MonitorPasteError /\ UNCHANGED <<callVars, envVars, clock, event_queue, serviceVars>>
    \/ \E content \in Contents :
          MonitorPaste(content) /\ UNCHANGED <<callVars, envVars, clock, event_queue, serviceVars>>
    \/ /\ Len(recorded) < StopRecords
       /\ MonitorIf(ExcelFront, ExcelAnswer)
       /\ UNCHANGED <<callVars, envVars, clock, event_queue, serviceVars>>
    \/ MonitorRecorded /\ UNCHANGED <<callVars, envVars, clock, serviceVars>>

\* the monitor started, polling and stopped
SpecStop == Init /\ [][NextStop]_vars

(***************************************************************************)
(* A copy made while a paste is correlated.                                *)
(***************************************************************************)
\* Recordings and commands of the race specification.
RaceCopies == 2
RaceCommands == 1

\* the paste commands the GUI may send at time t
RaceCommandsAt(t) ==
    { [type |-> "capture_paste_destination", timestamp |-> t,
       application |-> <<"M","i","c","r","o","s","o","f","t"," ","W","o","r","d">>, window |-> <<"R","e","p","o","r","t",".","d","o","c","x"," ","-"," ","W","o","r","d">>],
      [type |-> "capture_paste_destination", timestamp |-> t,
       application |-> <<"G","o","o","g","l","e"," ","C","h","r","o","m","e">>, window |-> ChromeTitle] }

\* handle_command up to the return of the destination handler; the call is
\* noted with the number of recordings made when the command was taken
HandleCommandNoted ==
    /\ HandleCommand
    /\ call' = [fn |-> "handle_command", recorded |-> Len(recorded)]
    /\ UNCHANGED returned

NextRace ==
    \/ RunStartClipboard /\ UNCHANGED <<callVars, envVars, clock>>
    \/ \E found \in BOOLEAN : RunExcelConnect(found) /\ UNCHANGED <<callVars, envVars, clock>>
    \/ \E outcome \in {"refused", "handshake", "connected"} :
          RunConnect(outcome) /\ UNCHANGED <<callVars, envVars, clock>>
    \/ MonitorWhile /\ UNCHANGED <<callVars, envVars, clock, event_queue, serviceVars>>
    \/ \E content \in Contents \ {<<>>} :
          MonitorPaste(content) /\ UNCHANGED <<callVars, envVars, clock, event_queue, serviceVars>>
    \/ /\ Len(recorded) < RaceCopies
       /\ MonitorIf(ExcelFront, ExcelAnswer)
       /\ UNCHANGED <<callVars, envVars, clock, event_queue, serviceVars>>
    \/ MonitorRecorded /\ UNCHANGED <<callVars, envVars, clock, serviceVars>>
    \/ \E command \in RaceCommandsAt(clock) :
          /\ commands_sent < RaceCommands
          /\ GuiSend(command)
          /\ UNCHANGED <<callVars, envVars, clock>>
    \/ HandleCommandNoted /\ UNCHANGED <<envVars, clock>>
    \/ \E delivered \in BOOLEAN :
          CreateUnifiedPasteEvent(delivered) /\ UNCHANGED <<callVars, envVars, clock>>

\* the command listener, on an event loop that keeps running, and the
\* clipboard monitor
SpecRace == Init /\ [][NextRace]_vars

(***************************************************************************)
(* A reader of the ledger next to the monitor.                             *)
(***************************************************************************)
\* get_last_clipboard, called from another thread: the test
\* "if self.clipboard_history"
GetLastTest ==
    /\ call.fn = "get_last_clipboard" => call.pc = "returned"
    /\ IF clipboard_history # <<>>
       THEN /\ call' = [fn |-> "get_last_clipboard", pc |-> "index"]
            /\ returned' = NoneDict
       ELSE /\ call' = [fn |-> "get_last_clipboard", pc |-> "returned"]
            /\ returned' = [value |-> NoneDict]

\* get_last_clipboard: "return self.clipboard_history[-1]", an IndexError
\* on an empty list
GetLastIndex ==
    /\ call.fn = "get_last_clipboard"
    /\ call.pc = "index"
    /\ call' = [fn |-> "get_last_clipboard", pc |-> "returned"]
    /\ returned' = IF clipboard_history # <<>>
                   THEN [value |-> clipboard_history[Len(clipboard_history)]]
                   ELSE [raised |-> "IndexError"]

\* Recordings of the reader specification.
ReaderRecords == 4

NextReader ==
    \/ StartMonitor /\ UNCHANGED <<callVars, envVars, clock, event_queue, serviceVars>>
    \/ MonitorWhile /\ UNCHANGED <<callVars, envVars, clock, event_queue, serviceVars>>
    \/ \E content \in Contents \ {<<>>} :
          MonitorPaste(content) /\ UNCHANGED <<callVars, envVars, clock, event_queue, serviceVars>>
    \/ /\ Len(recorded) < ReaderRecords
       /\ MonitorIf(ExcelFront, ExcelAnswer)
       /\ UNCHANGED <<callVars, envVars, clock, event_queue, serviceVars>>
    \/ MonitorRecorded /\ UNCHANGED <<callVars, envVars, clock, serviceVars>>
    \/ GetLastTest /\ UNCHANGED <<envVars, clock, monitorVars, event_queue, serviceVars>>
    \/ GetLastIndex /\ UNCHANGED <<envVars, clock, monitorVars, event_queue, serviceVars>>

\* the monitor recording while another thread reads the newest entry
SpecReader == Init /\ [][NextReader]_vars

(***************************************************************************)
(* Readers of the ledger that do not wait for a recording to finish.       *)
(***************************************************************************)
\* find_paste_destination, called from another thread while the monitor
\* records; "observed" notes the length of the list the scan starts on
CallFindPasteDestination(paste_time) ==
    /\ call.fn = "get_last_clipboard" => call.pc = "returned"
    /\ call' = [fn |-> "find_paste_destination", paste_time |-> paste_time,
                observed |-> Len(clipboard_history)]
    /\ returned' = [value |-> find_paste_destination(clipboard_history, paste_time)]

\* Recordings of the observer specification.
ObserverRecords == 4

NextObserver ==
    \/ Tick(MaxClock) /\ UNCHANGED <<callVars, envVars, monitorVars, event_queue, serviceVars>>
    \/ StartMonitor /\ UNCHANGED <<callVars, envVars, clock, event_queue, serviceVars>>
    \/ MonitorWhile /\ UNCHANGED <<callVars, envVars, clock, event_queue, serviceVars>>
    \/ \E content \in Contents \ {<<>>} :
          MonitorPaste(content) /\ UNCHANGED <<callVars, envVars, clock, event_queue, serviceVars>>
    \/ /\ Len(recorded) < ObserverRecords
       /\ MonitorIf(ExcelFront, ExcelAnswer)
       /\ UNCHANGED <<callVars, envVars, clock, event_queue, serviceVars>>
    \/ MonitorRecorded /\ UNCHANGED <<callVars, envVars, clock, serviceVars>>
    \/ GetLastTest /\ UNCHANGED <<envVars, clock, monitorVars, event_queue, serviceVars>>
    \/ GetLastIndex /\ UNCHANGED <<envVars, clock, monitorVars, event_queue, serviceVars>>
    \/ \E t \in 0..MaxClock :
          CallFindPasteDestination(t)
          /\ UNCHANGED <<envVars, clock, monitorVars, event_queue, serviceVars>>

\* the monitor recording while another thread reads the ledger in either way
SpecObserver == Init /\ [][NextObserver]_vars

(***************************************************************************)
(* The monitor on copies longer than the stored content.                   *)
(***************************************************************************)
\* Length of the long copies: one character more than content[:1000] keeps.
LongLength == 1001

\* a copy of LongLength characters that ends in the given character
LongText(last) == [i \in 1..LongLength |-> IF i = LongLength THEN last ELSE "a"]

LongTexts == {<<>>, <<"h","i">>, LongText("x"), LongText("y")}

\* Recordings of the long-copy specification.
LongRecords == 3

NextLong ==
    \/ StartMonitor /\ UNCHANGED <<callVars, envVars, clock, event_queue, serviceVars>>
    \/ StartDisabled /\ UNCHANGED <<callVars, envVars, clock, event_queue, serviceVars>>
    \/ MonitorWhile /\ UNCHANGED <<callVars, envVars, clock, event_queue, serviceVars>>
    \/ \E content \in LongTexts :
          MonitorPaste(content) /\ UNCHANGED <<callVars, envVars, clock, event_queue, serviceVars>>
    \/ /\ Len(recorded) < LongRecords
       /\ MonitorIf(ExcelFront, ExcelAnswer)
       /\ UNCHANGED <<callVars, envVars, clock, event_queue, serviceVars>>
    \/ MonitorRecorded /\ UNCHANGED <<callVars, envVars, clock, serviceVars>>

\* the monitor polling a clipboard that also holds long copies
SpecLong == Init /\ [][NextLong]_vars

(***************************************************************************)
(* The correlator and the readers next to a monitor that fills the ledger. *)
(***************************************************************************)
\* Recordings and commands of the frame specification.
FrameCopies == 4
FrameCommands == 1

NextFrame ==
    \/ RunStartClipboard /\ UNCHANGED <<callVars, envVars, clock>>
    \/ RunExcelConnect(FALSE) /\ UNCHANGED <<callVars, envVars, clock>>
    \/ RunConnect("connected") /\ UNCHANGED <<callVars, envVars, clock>>
    \/ MonitorWhile /\ UNCHANGED <<callVars, envVars, clock, event_queue, serviceVars>>
    \/ \E content \in Contents \ {<<>>} :
          MonitorPaste(content) /\ UNCHANGED <<callVars, envVars, clock, event_queue, serviceVars>>
    \/ /\ Len(recorded) < FrameCopies
       /\ MonitorIf(ExcelFront, ExcelAnswer)
       /\ UNCHANGED <<callVars, envVars, clock, event_queue, serviceVars>>
    \/ MonitorRecorded /\ UNCHANGED <<callVars, envVars, clock, serviceVars>>
    \/ \E command \in RaceCommandsAt(clock) :
          /\ commands_sent < FrameCommands
          /\ GuiSend(command)
          /\ UNCHANGED <<callVars, envVars, clock>>
    \/ HandleCommand /\ UNCHANGED <<callVars, envVars, clock>>
    \/ \E delivered \in BOOLEAN :
          CreateUnifiedPasteEvent(delivered) /\ UNCHANGED <<callVars, envVars, clock>>
    \/ GetLastTest /\ UNCHANGED <<envVars, clock, monitorVars, event_queue, serviceVars>>
    \/ GetLastIndex /\ UNCHANGED <<envVars, clock, monitorVars, event_queue, serviceVars>>
    \/ CallFindPasteDestination(clock)
       /\ UNCHANGED <<envVars, clock, monitorVars, event_queue, serviceVars>>

\* the paste correlator and callers of the two reads, next to a monitor that
\* records more copies than the ledger keeps
SpecFrame == Init /\ [][NextFrame]_vars

(***************************************************************************)
(* ExcelCapture: the periodic and the forced capture of the selection.     *)
(***************************************************************************)
\* Selection events and commands of the Excel specification.
ExcelEvents == 3
ExcelCommands == 1

\* what the selection queries of a capture may answer: nothing, two
\* selections, the selection the destination handler may find, and two
\* captures that got the address and failed on a later query
ExcelSelections ==
    HandlerAnswers("excel") \cup
    { ExcelAnswer,
      <<<<"D","4">>, <<"Q","1">>, <<"S","a","l","e","s",".","x","l","s","x">>, <<"/","d","/","S","a","l","e","s",".","x","l","s","x">>>>,
      <<<<"D","4">>>>,
      <<<<"$","1",":","$","1","0","4","8","5","7","6">>>> }

\* run(): one iteration of the main loop, "if self.excel_capture.excel:
\* self.excel_capture.capture_selection()"
RunCaptureSelection(answer) ==
    /\ service_pc = "running"
    /\ running
    /\ excel
    /\ capture_selection(answer)
    /\ UNCHANGED <<service_pc, running, excel, transportVars, handlerVars,
                   monitorVars>>

NextExcel ==
    \/ RunStartClipboard /\ UNCHANGED <<callVars, envVars, clock>>
    \/ \E found \in BOOLEAN : RunExcelConnect(found) /\ UNCHANGED <<callVars, envVars, clock>>
    \/ \E outcome \in {"refused", "connected"} :
          RunConnect(outcome) /\ UNCHANGED <<callVars, envVars, clock>>
    \/ \E answer \in ExcelSelections :
          /\ Len(event_queue) < ExcelEvents
          /\ RunCaptureSelection(answer)
          /\ UNCHANGED <<callVars, envVars, clock>>
    \/ /\ commands_sent < ExcelCommands
       /\ GuiSend([type |-> "capture_paste_destination", timestamp |-> clock,
                   application |-> ExcelName, window |-> BudgetTitle])
       /\ UNCHANGED <<callVars, envVars, clock>>
    \/ HandleCommand /\ UNCHANGED <<callVars, envVars, clock>>
    \/ \E delivered \in BOOLEAN :
          CreateUnifiedPasteEvent(delivered) /\ UNCHANGED <<callVars, envVars, clock>>

\* the service polling the Excel selection, with the forced capture of a
\* spreadsheet paste; the event queue is not consumed, so it holds every
\* event emitted
SpecExcel == Init /\ [][NextExcel]_vars

(***************************************************************************)
(* Calls of the pure helpers.                                              *)
(***************************************************************************)
\* The application types _infer_app_type and the destination handlers give.
AppTypes == {"spreadsheet", "document", "presentation", "web_application",
             "code_editor", "unknown"}

\* application names a paste command may carry
AppNames ==
    { <<"M","i","c","r","o","s","o","f","t"," ","E","x","c","e","l">>,
      <<"E","X","C","E","L",".","E","X","E">>,
      <<"M","i","c","r","o","s","o","f","t"," ","W","o","r","d">>,
      <<"W","I","N","W","O","R","D",".","E","X","E">>,
      <<"P","o","w","e","r","P","o","i","n","t">>,
      <<"G","o","o","g","l","e"," ","C","h","r","o","m","e">>,
      <<"S","a","f","a","r","i">>,
      <<"f","i","r","e","f","o","x">>,
      <<"M","i","c","r","o","s","o","f","t"," ","E","d","g","e">>,
      <<"C","h","r","o","m","e"," ","W","o","r","d">>,
      <<"W","o","r","d"," ","E","x","c","e","l">>,
      <<"S","a","f","a","r","i"," ","E","d","g","e">>,
      <<"N","o","t","e","p","a","d">>,
      <<"C","o","d","e">>,
      <<>> }

\* window titles of a browser: None, the title of the specification's
\* example, and titles of one to four parts
BrowserTitles ==
    { None,
      ChromeTitle,
      <<"D","a","s","h","b","o","a","r","d">>,
      <<"D","a","s","h","b","o","a","r","d"," ","-"," ","G","o","o","g","l","e"," ","C","h","r","o","m","e">>,
      <<"N","o","t","i","o","n">>,
      <<"S","a","l","e","s","f","o","r","c","e"," ","-"," ","G","o","o","g","l","e"," ","C","h","r","o","m","e">>,
      <<"I","n","b","o","x"," ","-"," ","S","l","a","c","k"," ","-"," ","G","m","a","i","l"," ","-"," ","S","a","f","a","r","i">>,
      <<"H","U","B","S","P","O","T"," ","D","e","a","l","s"," ","-"," ","A","c","m","e"," ","-"," ","G","o","o","g","l","e"," ","C","h","r","o","m","e">>,
      <<"A"," ","-"," ","B"," ","-"," ","C"," ","-"," ","G","o","o","g","l","e"," ","C","h","r","o","m","e">>,
      <<>> }

\* clipboard contents
ClipboardTexts ==
    { <<"2","0","2","4","-","0","1","-","1","5">>,
      <<"1","/","1","5","/","2","4">>,
      <<"0","1","/","1","5","/","2","0","2","4">>,
      <<"1","-","2","-","3">>,
      <<"1","2"," ","-"," ","1"," ","-"," ","9","9">>,
      <<"1","-","2">>,
      <<"a","-","b","-","c">>,
      <<"j","o","h","n","@","e","x","a","m","p","l","e",".","c","o","m">>,
      <<"$","1",",","2","3","4",".","5","6">>,
      <<"a","\t","b","\t","c">>,
      <<"a","\n","b">>,
      <<"h","e","l","l","o">>,
      <<"w","w","w",".","a","c","m","e",".","i","o">>,
      <<"5","5","5","-","1","2","3","4","5","6","7">>,
      <<"4","2">>,
      <<>>,
      <<"a","\t","b","\n","c">>,
      <<"1","-","2","-","\t","3">>,
      <<"w","w","w",".","5","5","5","1","2","3","4",".","c","o","m">>,
      <<"a","@","b",".","c","o"," ","5","5","5","1","2","3","4","5","6","7">>,
      <<"1","2","3","4","5","6","7">> }

\* self._detect_transformation(source_type, dest_type)
CallDetectTransformation(source_type, dest_type) ==
    /\ call' = [fn |-> "_detect_transformation", source_type |-> source_type,
                dest_type |-> dest_type]
    /\ returned' = [value |-> _detect_transformation(source_type, dest_type)]

\* capture_paste_destination: the search of the handlers dict for app_name
CallFindHandler(app_name) ==
    /\ call' = [fn |-> "capture_paste_destination", app_name |-> app_name]
    /\ returned' = [value |-> FindHandler(app_name)]

\* self._capture_browser_destination(app_name, window_title)
CallBrowserDestination(app_name, window_title) ==
    /\ call' = [fn |-> "_capture_browser_destination", app_name |-> app_name,
                window_title |-> window_title]
    /\ returned' = [value |-> _capture_browser_destination(app_name, window_title)]

\* self._infer_app_type(app_name), for a name that is None or a str
CallInferAppType(app_name) ==
    /\ call' = [fn |-> "_infer_app_type", app_name |-> app_name]
    /\ returned' = [value |-> _infer_app_type(app_name)]

\* window titles of an application named Word
WordTitles ==
    { None,
      <<>>,
      <<"R","e","p","o","r","t",".","d","o","c","x"," ","-"," ","W","o","r","d">>,
      <<"R","e","p","o","r","t",".","d","o","c","x"," ","emdash"," ","W","o","r","d">>,
      <<"R","e","p","o","r","t",".","d","o","c","x"," ","endash"," ","W","o","r","d">>,
      <<"B","u","d","g","e","t",".","x","l","s","x"," ","-"," ","M","i","c","r","o","s","o","f","t"," ","E","x","c","e","l">>,
      <<"P","l","a","n"," ","-"," ","G","o","o","g","l","e"," ","D","o","c","s"," ","-"," ","W","o","r","d">>,
      <<"N","o","t","e","s"," ","-"," ","W","o","r","d"," ","-"," ","C","o","m","p","a","t","i","b","i","l","i","t","y"," ","M","o","d","e">>,
      <<"F","l","y","e","r"," ","-"," ","A","d","o","b","e"," ","R","e","a","d","e","r">>,
      <<" ","-"," ","W","o","r","d">>,
      <<"r","e","a","d","m","e",".","t","x","t">> }

\* self._extract_document_name(window_title, app_name)
CallExtractDocumentName(window_title, app_name) ==
    /\ call' = [fn |-> "_extract_document_name", window_title |-> window_title,
                app_name |-> app_name]
    /\ returned' = [value |-> _extract_document_name(window_title, app_name)]

\* self._detect_data_type(content)
CallDetectDataType(content) ==
    /\ call' = [fn |-> "_detect_data_type", content |-> content]
    /\ returned' = [value |-> _detect_data_type(content)]

\* the applications a copy may be made in
SourceFronts ==
    { ExcelFront,
      <<<<"M","i","c","r","o","s","o","f","t"," ","W","o","r","d">>, <<"N","o","t","e","s",".","d","o","c","x"," ","-"," ","W","o","r","d">>>>,
      <<<<"P","o","w","e","r","P","o","i","n","t">>, <<"D","e","c","k",".","p","p","t","x"," ","-"," ","P","o","w","e","r","P","o","i","n","t">>>>,
      <<<<"G","o","o","g","l","e"," ","C","h","r","o","m","e">>, <<"I","n","b","o","x"," ","-"," ","G","m","a","i","l"," ","-"," ","G","o","o","g","l","e"," ","C","h","r","o","m","e">>>>,
      <<<<"C","o","d","e">>, <<"m","a","i","n",".","p","y">>>>,
      <<<<"N","o","t","e","p","a","d">>, <<"n","o","t","e","s",".","t","x","t">>>> }

\* the applications and windows a paste may be made in
DestinationWindows ==
    { <<<<"M","i","c","r","o","s","o","f","t"," ","E","x","c","e","l">>, <<"B","u","d","g","e","t",".","x","l","s","x"," ","-"," ","E","x","c","e","l">>>>,
      <<<<"M","i","c","r","o","s","o","f","t"," ","W","o","r","d">>, <<"R","e","p","o","r","t",".","d","o","c","x"," ","-"," ","W","o","r","d">>>>,
      <<<<"P","o","w","e","r","P","o","i","n","t">>, <<"D","e","c","k",".","p","p","t","x"," ","-"," ","P","o","w","e","r","P","o","i","n","t">>>>,
      <<<<"N","o","t","e","p","a","d">>, <<"n","o","t","e","s",".","t","x","t">>>>,
      <<<<"G","o","o","g","l","e"," ","C","h","r","o","m","e">>, ChromeTitle>> }

\* _create_unified_paste_event for the ledger entry of a copy made in front,
\* where the Excel selection query answered selection, and the
\* destination_context capture_paste_destination stored for window
CallCreateUnifiedPasteEvent(front, selection, window, answer) ==
    LET entry == clipboard_event(<<"h","i">>,
                                 _get_source_context(platform, front, selection), 0)
        destination == CallHandler(FindHandler(window[1]), window[1], window[2], answer)
    IN  /\ call' = [fn |-> "_create_unified_paste_event", entry |-> entry,
                    destination |-> destination]
        /\ returned' = [value |-> unified_paste_event(entry, 0, destination, 0)]

NextCalls ==
    \/ \E source_type \in AppTypes, dest_type \in AppTypes :
          /\ CallDetectTransformation(source_type, dest_type)
          /\ UNCHANGED <<envVars, clock, monitorVars, event_queue, serviceVars>>
    \/ \E app_name \in AppNames :
          /\ CallFindHandler(app_name)
          /\ UNCHANGED <<envVars, clock, monitorVars, event_queue, serviceVars>>
    \/ \E window_title \in BrowserTitles :
          /\ CallBrowserDestination(<<"S","a","f","a","r","i">>, window_title)
          /\ UNCHANGED <<envVars, clock, monitorVars, event_queue, serviceVars>>
    \/ \E content \in ClipboardTexts :
          /\ CallDetectDataType(content)
          /\ UNCHANGED <<envVars, clock, monitorVars, event_queue, serviceVars>>
    \/ \E front \in SourceFronts, selection \in {ExcelAnswer, <<>>},
          window \in DestinationWindows :
          \E answer \in HandlerAnswers(FindHandler(window[1])) :
              /\ CallCreateUnifiedPasteEvent(front, selection, window, answer)
              /\ UNCHANGED <<envVars, clock, monitorVars, event_queue, serviceVars>>
    \/ \E app_name \in AppNames \cup {None} :
          /\ CallInferAppType(app_name)
          /\ UNCHANGED <<envVars, clock, monitorVars, event_queue, serviceVars>>
    \/ \E window_title \in WordTitles :
          /\ CallExtractDocumentName(window_title, <<"W","o","r","d">>)
          /\ UNCHANGED <<envVars, clock, monitorVars, event_queue, serviceVars>>

\* the helpers called on their own
SpecCalls == Init /\ [][NextCalls]_vars

(***************************************************************************)
(* Claims about the ledger, checked under SpecLedger.                      *)
(***************************************************************************)
RecordedEvents == [i \in 1..Len(recorded) |-> recorded[i].event]

\* a can be obtained from b by deleting elements, the order kept
RECURSIVE IsSubsequence(_, _)
IsSubsequence(a, b) ==
    IF a = <<>> THEN TRUE
    ELSE IF b = <<>> THEN FALSE
    ELSE IF Head(a) = Head(b) THEN IsSubsequence(Tail(a), Tail(b))
    ELSE IsSubsequence(a, Tail(b))

\* the last n elements of a sequence
LastN(seq, n) == SubSeq(seq, Len(seq) - n + 1, Len(seq))

Min(a, b) == IF a < b THEN a ELSE b

\* C1: whenever no recording is in progress, the ledger holds at most
\* max_history entries, and its entries are recorded events in the order in
\* which they were recorded (the ledger is a subsequence of the log).
C1_LedgerBoundedAndOrdered ==
    monitor_pc # "appended" =>
        /\ Len(clipboard_history) <= max_history
        /\ IsSubsequence(clipboard_history, RecordedEvents)

C1_Witness ==
    /\ monitor_pc = "while"
    /\ Len(recorded) = MaxRecords
    /\ Len(clipboard_history) = max_history

\* C2: after n recordings the ledger is exactly the last min(n, max_history)
\* recorded events, oldest first; while a recording is between its append and
\* its eviction the ledger is the previous such suffix plus the new event, so
\* the eviction that follows removes the entry at index 0 and no other.
C2_LedgerIsSuffixOfRecorded ==
    LET n == Len(recorded)
    IN  IF monitor_pc = "appended"
        THEN clipboard_history =
                 LastN(SubSeq(RecordedEvents, 1, n - 1), Min(n - 1, max_history))
                     \o <<RecordedEvents[n]>>
        ELSE clipboard_history = LastN(RecordedEvents, Min(n, max_history))

C2_Witness ==
    /\ monitor_pc = "while"
    /\ Len(recorded) > max_history
    /\ clipboard_history[1] = recorded[Len(recorded) - max_history + 1].event
    /\ clipboard_history[1] # recorded[1].event

LastRecordedRaw == IF recorded = <<>> THEN <<>> ELSE recorded[Len(recorded)].raw

EntryTime(entry) == fromisoformat(entry.timestamp)

Creates == handler_pc = "create" /\ handler_pc' = "idle"

\* the event such a step has built
Created == paste_log'[Len(paste_log')]

\* a step in which the listener takes a capture_paste_destination command
Handles ==
    /\ Len(inbox') < Len(inbox)
    /\ Get(Head(inbox), "type", "none") = "capture_paste_destination"

C6_EmptyLedgerIncomplete ==
    [][/\ (Creates /\ clipboard_history = <<>>) =>
             /\ Created.type = "cross_app_paste"
             /\ Created.source = NoneDict
             /\ Created.description = Incomplete
             /\ Created.data_flow = EmptyDict
       /\ (/\ Handles
           /\ IsStr(Get(Head(inbox), "application", Unknown))
           /\ ~IsInt(Get(Head(inbox), "window", <<>>))) =>
             handler_pc' = "create"]_vars

\* a paste was correlated although nothing was ever recorded
C6_Witness ==
    /\ paste_log # <<>>
    /\ recorded = <<>>
    /\ clipboard_history = <<>>
    /\ paste_log[1].description = Incomplete

\* C7: in every cross_app_paste event created, data_flow is empty exactly
\* when the description is "Paste operation (incomplete context)", which is
\* exactly when the source is None or the destination is empty; otherwise the
\* description is "Pasted from <source label> to <destination label>" and
\* data_flow holds from, to and transformation.
C7_FlowIffDescribed ==
    \A i \in 1..Len(paste_log) :
        LET e == paste_log[i]
            absent == e.source = NoneDict \/ e.destination = EmptyDict
        IN  /\ e.data_flow = EmptyDict <=> e.description = Incomplete
            /\ e.description = Incomplete <=> absent
            /\ ~absent =>
                  /\ e.description =
                         <<"P","a","s","t","e","d"," ","f","r","o","m"," ">>
                             \o Format(_format_location(e.source))
                             \o <<" ","t","o"," ">>
                             \o Format(_format_location(e.destination))
                  /\ DOMAIN e.data_flow = {"from", "to", "transformation"}
                  /\ e.data_flow.from = _format_location(e.source)
                  /\ e.data_flow.to = _format_location(e.destination)

\* a paste from a spreadsheet cell range was described
C7_Witness ==
    /\ paste_log # <<>>
    /\ paste_log[1].source # NoneDict
    /\ paste_log[1].source.type = "spreadsheet"
    /\ paste_log[1].data_flow # EmptyDict
    /\ paste_log[1].description # Incomplete

\* C8: when the ledger is not empty, the source of the event created is built
\* from the newest entry the ledger holds at that moment, whatever the
\* timestamp of the paste and whatever the time of that entry.
C8_SourceFromNewestEntry ==
    [][(Creates /\ clipboard_history # <<>>) =>
          LET newest == clipboard_history[Len(clipboard_history)]
          IN  /\ Created.source # NoneDict
              /\ Created.source.content = newest.content_preview
              /\ Created.source.data_type = newest.data_type
              /\ Created.source.application = newest.source.application
              /\ Created.source.window = newest.source.window_title]_vars

\* the source was built from the newer of two entries although only the older
\* one is not after the paste
C8_Witness ==
    /\ paste_log # <<>>
    /\ Len(clipboard_history) = 2
    /\ paste_log[1].source # NoneDict
    /\ paste_log[1].source.content = clipboard_history[2].content_preview
    /\ paste_log[1].source.content # clipboard_history[1].content_preview
    /\ EntryTime(clipboard_history[1]) <= paste_log[1].paste_timestamp
    /\ EntryTime(clipboard_history[2]) > paste_log[1].paste_timestamp

\* C9: the source of the event created is None whenever every entry of the
\* ledger has a timestamp later than the timestamp of the paste.
C9_SourceAbsentWhenNoneEligible ==
    [][(/\ Creates
        /\ paste_timestamp # NoTime
        /\ \A i \in 1..Len(clipboard_history) :
               EntryTime(clipboard_history[i]) > paste_timestamp) =>
          Created.source = NoneDict]_vars

\* C10: handling a capture_paste_destination command never raises: whatever
\* the payload, the handler returns and the event is created.
C10_HandlingNeverRaises ==
    [][Handles => (handler_pc' = "create" /\ listener' = "listening")]_vars

(***************************************************************************)
(* Claims about the command listener, checked under SpecListener and       *)
(* SpecRun.                                                                *)
(***************************************************************************)
\* a step in which the listener receives a message
Receives == Len(inbox') < Len(inbox)

\* C11: a message that is not a command record (text that is not JSON, or
\* JSON that is not an object) is discarded: no event is created or sent, the
\* ledger, the event queue and the connection state stay as they are, and
\* the listener goes on listening.
C11_MalformedDiscarded ==
    [][(Receives /\ "malformed" \in DOMAIN Head(inbox)) =>
          /\ listener' = "listening"
          /\ UNCHANGED <<paste_log, last_send, event_queue, monitorVars,
                         websocket, electron_connected, handler_pc>>]_vars

\* C12: a command whose type is not capture_paste_destination, or that has
\* no type, is ignored: the step that receives it changes nothing but the
\* inbox (and the log of received messages), so no paste event is created,
\* no selection is queried, and ledger, event queue and connection state
\* stay as they are.
C12_OtherCommandsIgnored ==
    [][(/\ Receives
        /\ "malformed" \notin DOMAIN Head(inbox)
        /\ Get(Head(inbox), "type", "none") # "capture_paste_destination") =>
          /\ handled' = Append(handled, [message |-> Head(inbox),
                                         outcome |-> "ignored"])
          /\ UNCHANGED <<paste_log, last_send, event_queue, monitorVars,
                         excelVars, websocket, electron_connected, listener,
                         handler_pc, paste_timestamp, destination_context,
                         service_pc, running>>]_vars

\* with Excel connected and a copy in the ledger, a command without a type
\* was ignored and the paste command after it was correlated
C12_Witness ==
    /\ Len(handled) = 2
    /\ handled[1].outcome = "ignored"
    /\ "type" \notin DOMAIN handled[1].message
    /\ handled[2].outcome = "correlated"
    /\ excel
    /\ clipboard_history # <<>>
    /\ Len(paste_log) = 1

\* C13: after run() has connected to the GUI, the listener is active for as
\* long as the service is running and the connection has not been closed or
\* marked disconnected.
C13_ListenerStaysActive ==
    (service_pc = "running" /\ running /\ websocket = "open" /\ electron_connected)
        => listener = "listening"

(***************************************************************************)
(* Claims about the transport, checked under SpecRun.                      *)
(***************************************************************************)
\* a step in which process_events takes an event from the queue
Takes == Len(event_queue') < Len(event_queue)

\* C14: delivery is best effort and keeps nothing.  The event taken leaves
\* the queue whatever happens to it, and the event thread goes on.  While
\* the transport is disconnected the event is not sent; while it is
\* connected the event is sent, and a send that fails marks the transport
\* disconnected.  Nothing is sent but the event just taken from the head of
\* the queue, so an event that was dropped is not sent later.
C14_BestEffortDelivery ==
    [][/\ Takes =>
             /\ event_queue' = Tail(event_queue)
             /\ UNCHANGED <<running, service_pc, websocket>>
             /\ ~(websocket = "open" /\ electron_connected) =>
                    UNCHANGED <<last_send, electron_connected>>
             /\ (websocket = "open" /\ electron_connected) =>
                    /\ last_send'.event = Head(event_queue)
                    /\ \/ last_send'.outcome = "sent" /\ electron_connected'
                       \/ last_send'.outcome = "failed" /\ ~electron_connected'
       /\ last_send' # last_send => Takes]_vars

\* the first event taken failed to be sent, and the second one, taken while
\* the transport was marked disconnected, was dropped
C14_Witness ==
    /\ Len(recorded) = 2
    /\ monitor_pc # "appended"
    /\ event_queue = <<>>
    /\ running
    /\ ~electron_connected
    /\ last_send = [event |-> recorded[1].event, outcome |-> "failed"]


(***************************************************************************)
(* Claims about the helpers.                                               *)
(***************************************************************************)
\* The lookup of transformation kinds; every pair that is not listed is a
\* direct_paste.
TransformationTable ==
    { <<"spreadsheet", "document", "table_to_text">>,
      <<"spreadsheet", "presentation", "data_to_slide">>,
      <<"spreadsheet", "web_application", "data_to_form">>,
      <<"document", "spreadsheet", "text_to_cells">>,
      <<"document", "presentation", "text_to_slide">>,
      <<"document", "web_application", "text_to_form">>,
      <<"web_application", "spreadsheet", "web_to_data">>,
      <<"web_application", "document", "web_to_text">> }

Lookup(source_type, dest_type) ==
    IF \E row \in TransformationTable : row[1] = source_type /\ row[2] = dest_type
    THEN (CHOOSE row \in TransformationTable :
              row[1] = source_type /\ row[2] = dest_type)[3]
    ELSE "direct_paste"

\* C15: the transformation kind is the fixed lookup on (source type,
\* destination type), direct_paste for every pair the table does not list;
\* this holds of _detect_transformation on every pair of the six
\* application types and of the data flow of every complete paste event.
C15_TransformationIsLookup ==
    /\ call.fn = "_detect_transformation" =>
           returned.value = Lookup(call.source_type, call.dest_type)
    /\ (call.fn = "_create_unified_paste_event"
            /\ returned.value.data_flow # EmptyDict) =>
           /\ returned.value.source.type \in AppTypes
           /\ returned.value.destination.type \in AppTypes
           /\ returned.value.data_flow.transformation =
                  Lookup(returned.value.source.type, returned.value.destination.type)

\* a paste event from a spreadsheet into a web application is a data_to_form
C15_Witness ==
    /\ call.fn = "_create_unified_paste_event"
    /\ returned.value.data_flow # EmptyDict
    /\ returned.value.source.type = "spreadsheet"
    /\ returned.value.destination.type = "web_application"
    /\ returned.value.data_flow.transformation = "data_to_form"

\* the paragraph or line a document handler captured
TextPosition(location) ==
    IF "paragraph" \in DOMAIN location THEN location.paragraph ELSE location.line

\* C16: a paste from a spreadsheet selection (workbook W, sheet S, address A)
\* into a document D at page P, paragraph or line N, is a table_to_text
\* described as "Pasted from W!S!A to D (Page P, Para N)"; the label of a
\* document destination with a captured text position is "D (Page P, Para N)".
C16_DescriptionNamesPosition ==
    (call.fn = "_create_unified_paste_event"
         /\ returned.value.data_flow # EmptyDict
         /\ returned.value.destination.type = "document"
         /\ "location" \in DOMAIN returned.value.destination) =>
        LET event == returned.value
            source == event.source
            destination == event.destination
            label == Format(destination.document)
                         \o <<" ","(","P","a","g","e"," ">> \o Format(destination.location.page)
                         \o <<","," ","P","a","r","a"," ">> \o Format(TextPosition(destination.location))
                         \o <<")">>
        IN  /\ event.data_flow.to = label
            /\ (source.type = "spreadsheet" /\ "location" \in DOMAIN source) =>
                   /\ event.data_flow.transformation = "table_to_text"
                   /\ event.description =
                          <<"P","a","s","t","e","d"," ","f","r","o","m"," ">> \o Format(source.document) \o <<"!">>
                              \o Format(source.location.sheet) \o <<"!">>
                              \o Format(source.location.address)
                              \o <<" ","t","o"," ">> \o label

\* The families in their declared order, each with its key in lower case.
FamilyOrder ==
    << <<"excel", <<"e","x","c","e","l">>>>,
       <<"word", <<"w","o","r","d">>>>,
       <<"powerpoint", <<"p","o","w","e","r","p","o","i","n","t">>>>,
       <<"browser", <<"c","h","r","o","m","e">>>>,
       <<"browser", <<"s","a","f","a","r","i">>>>,
       <<"browser", <<"f","i","r","e","f","o","x">>>>,
       <<"browser", <<"e","d","g","e">>>> >>

\* whether the k-th key occurs in name, letter case ignored
Occurs(k, name) == Contains(Lower(name), FamilyOrder[k][2])

\* C17: the handler chosen for an application name is that of the first
\* key, in the order Excel, Word, PowerPoint, Chrome, Safari, Firefox, Edge,
\* that occurs in the name with letter case ignored, and the generic handler
\* exactly when no key occurs; the choice depends on the name alone, so a
\* name with both "Word" and "Chrome" always gets the document handler.
C17_FirstKeyInOrderWins ==
    call.fn = "capture_paste_destination" =>
        /\ \A k \in 1..Len(FamilyOrder) :
               (Occurs(k, call.app_name)
                    /\ \A j \in 1..(k - 1) : ~Occurs(j, call.app_name)) =>
                   returned.value = FamilyOrder[k][1]
        /\ returned.value = "generic" <=>
               \A k \in 1..Len(FamilyOrder) : ~Occurs(k, call.app_name)
        /\ (Occurs(2, call.app_name) /\ Occurs(4, call.app_name)) =>
               returned.value = "word"

\* the name "Chrome Word", where the later key comes first in the name
C17_Witness ==
    /\ call.fn = "capture_paste_destination"
    /\ call.app_name = <<"C","h","r","o","m","e"," ","W","o","r","d">>
    /\ returned.value = "word"

\* C18: a browser destination whose window title splits on " - " into
\* k >= 2 parts has the first part as page_title and as domain the
\* second-to-last part when k > 2, the second when k = 2 ("Dashboard - Acme
\* CRM - Google Chrome" gives page_title "Dashboard", domain "Acme CRM");
\* with fewer than 2 parts neither is set and the location page is "Unknown".
C18_TitleSplitsIntoPageAndDomain ==
    call.fn = "_capture_browser_destination" =>
        LET title == call.window_title
            parts == IF Truthy(title) THEN Split(title, <<" ","-"," ">>) ELSE <<>>
            k == Len(parts)
            destination == returned.value
        IN  /\ k >= 2 =>
                /\ destination.page_title = parts[1]
                /\ destination.domain = IF k > 2 THEN parts[k - 1] ELSE parts[2]
                /\ destination.location.page = parts[1]
            /\ k < 2 =>
                /\ "page_title" \notin DOMAIN destination
                /\ "domain" \notin DOMAIN destination
                /\ destination.location.page = Unknown
            /\ title = ChromeTitle =>
                /\ destination.page_title = <<"D","a","s","h","b","o","a","r","d">>
                /\ destination.domain = <<"A","c","m","e"," ","C","R","M">>

\* the title of the example, of three parts
C18_Witness ==
    /\ call.fn = "_capture_browser_destination"
    /\ call.window_title = ChromeTitle
    /\ returned.value.page_title = <<"D","a","s","h","b","o","a","r","d">>
    /\ returned.value.domain = <<"A","c","m","e"," ","C","R","M">>
    /\ returned.value.location.page = <<"D","a","s","h","b","o","a","r","d">>

\* the entries of the web-application dictionary whose signature occurs in
\* title, letter case ignored
Signatures(title) ==
    {k \in 1..Len(WebAppKeys) : Contains(Lower(title), WebAppKeys[k])}

\* C19: a browser destination whose window title contains, letter case
\* ignored, a signature of the web-application dictionary has web_app set to
\* the friendly name of the first entry that matches, however many parts
\* the title has.
C19_WebAppFromAnyTitle ==
    (call.fn = "_capture_browser_destination"
         /\ Truthy(call.window_title)
         /\ Signatures(call.window_title) # {}) =>
        /\ "web_app" \in DOMAIN returned.value
        /\ \A k \in Signatures(call.window_title) :
               (\A j \in Signatures(call.window_title) : k <= j) =>
                   returned.value.web_app = WebAppNames[k]

\* a group of one or more digits
DigitGroup(p) == p # <<>> /\ \A i \in 1..Len(p) : p[i] \in {"0","1","2","3","4","5","6","7","8","9"}

\* three groups of digits with a '-' or a '/' between them
ThreeDigitGroups(content) ==
    \E i, j \in 1..Len(content) :
        /\ i < j
        /\ content[i] \in {"-", "/"} /\ content[j] \in {"-", "/"}
        /\ DigitGroup(SubSeq(content, 1, i - 1))
        /\ DigitGroup(SubSeq(content, i + 1, j - 1))
        /\ DigitGroup(SubSeq(content, j + 1, Len(content)))

\* C20: the content "2024-01-15", and every content of three all-digit
\* groups separated by '-' or '/' that is shorter than 20 characters, is
\* classified as a date.
C20_DigitGroupsAreDates ==
    (call.fn = "_detect_data_type"
         /\ (call.content = <<"2","0","2","4","-","0","1","-","1","5">>
                 \/ (ThreeDigitGroups(call.content) /\ Len(call.content) < 20))) =>
        returned.value = "date"

\* The rules of the content classification in their order: whether the rule
\* holds of content, and the type it gives.
TypeRules(content) ==
    << <<IsEmail(content), "email">>,
       <<IsPhone(content), "phone">>,
       <<IsUrl(content), "url">>,
       <<IsNumber(content), "number">>,
       <<IsDate(content), "date">>,
       <<Contains(content, <<"\t">>), "tabular">>,
       <<Contains(content, <<"\n">>), "multiline">>,
       <<TRUE, "text">> >>

\* C21: _detect_data_type gives the type of the first rule that holds, in the
\* order email, phone, url, number, date, tabular, multiline, text; content
\* with a tab and a newline is tabular, "john@example.com" is an email,
\* "$1,234.56" a number and "a<TAB>b<TAB>c" tabular.
C21_FirstRuleWins ==
    call.fn = "_detect_data_type" =>
        LET rules == TypeRules(call.content)
        IN  /\ \A k \in 1..Len(rules) :
                   (rules[k][1] /\ \A j \in 1..(k - 1) : ~rules[j][1]) =>
                       returned.value = rules[k][2]
            /\ (Contains(call.content, <<"\t">>) /\ Contains(call.content, <<"\n">>)
                    /\ \A j \in 1..5 : ~rules[j][1]) => returned.value = "tabular"
            /\ call.content = <<"j","o","h","n","@","e","x","a","m","p","l","e",".","c","o","m">> => returned.value = "email"
            /\ call.content = <<"$","1",",","2","3","4",".","5","6">> => returned.value = "number"
            /\ call.content = <<"a","\t","b","\t","c">> => returned.value = "tabular"

\* content with a tab and a newline
C21_Witness ==
    /\ call.fn = "_detect_data_type"
    /\ call.content = <<"a","\t","b","\n","c">>
    /\ returned.value = "tabular"

\* The content types.
DataTypes == {"text", "number", "date", "email", "phone", "url", "tabular",
              "multiline"}

C23_TypesAreEnumerated ==
    /\ call.fn = "_infer_app_type" =>
           /\ returned.value \in AppTypes
           /\ call.app_name \in {None, <<>>, <<"N","o","t","e","p","a","d">>} => returned.value = "unknown"
    /\ call.fn = "_create_unified_paste_event" =>
           LET event == returned.value
           IN  /\ event.type = "cross_app_paste"
               /\ event.destination.type \in AppTypes
               /\ event.source # NoneDict =>
                      /\ event.source.type \in AppTypes
                      /\ event.source.data_type \in DataTypes
               /\ (FindHandler(event.destination.application) = "generic") =>
                      event.destination.type = "unknown"
               /\ (event.source # NoneDict
                       /\ event.source.application \in {Unknown, <<"N","o","t","e","p","a","d">>}) =>
                      event.source.type = "unknown"

\* a paste from an application that is not recognised into another
C23_Witness ==
    /\ call.fn = "_create_unified_paste_event"
    /\ returned.value.source # NoneDict
    /\ returned.value.source.application = <<"N","o","t","e","p","a","d">>
    /\ returned.value.source.type = "unknown"
    /\ returned.value.destination.application = <<"N","o","t","e","p","a","d">>
    /\ returned.value.destination.type = "unknown"
    /\ returned.value.source.data_type = "text"

\* The suffix patterns of the document-name extraction for an application
\* named app, in the order they are tried.
SuffixPatterns(app) ==
    << <<" ","-"," ">> \o app,
       <<" ","emdash"," ">> \o app,
       <<" ","endash"," ">> \o app,
       <<" ","-"," ","M","i","c","r","o","s","o","f","t">>,
       <<" ","-"," ","G","o","o","g","l","e">>,
       <<" ","-"," ","A","d","o","b","e">> >>

\* title up to the first place where pattern occurs
Before(title, pattern) ==
    LET i == CHOOSE i \in 0..(Len(title) - Len(pattern)) :
                 /\ SubSeq(title, i + 1, i + Len(pattern)) = pattern
                 /\ \A j \in 0..(i - 1) : SubSeq(title, j + 1, j + Len(pattern)) # pattern
    IN  SubSeq(title, 1, i)

\* C24: the service's _extract_document_name cuts the window title at the
\* first pattern, in the order " - <app>", " <em dash> <app>",
\* " <en dash> <app>", " - Microsoft", " - Google", " - Adobe", that occurs
\* in it, returns the title unchanged when none occurs, and returns
\* "Untitled" for a title that is empty or missing; the name is never None
\* and, for a title that is not empty, never longer than the title.
C24_SuffixStripped ==
    call.fn = "_extract_document_name" =>
        LET title == call.window_title
            patterns == SuffixPatterns(call.app_name)
            name == returned.value
        IN  /\ name # None
            /\ ~Truthy(title) => name = <<"U","n","t","i","t","l","e","d">>
            /\ Truthy(title) =>
                   /\ Len(name) <= Len(title)
                   /\ (\A k \in 1..Len(patterns) : ~Contains(title, patterns[k])) =>
                          name = title
                   /\ \A k \in 1..Len(patterns) :
                          (Contains(title, patterns[k])
                               /\ \A j \in 1..(k - 1) : ~Contains(title, patterns[j])) =>
                              name = Before(title, patterns[k])

(***************************************************************************)
(* Claims about the polling thread.                                        *)
(***************************************************************************)
\* a step in which the tick of the monitor ends by an exception: the loop is
\* back at its test although the read failed, or although a change was
\* detected and the content was not remembered
TickFails ==
    /\ monitor_pc' = "while"
    /\ last_clipboard' = last_clipboard
    /\ \/ monitor_pc = "paste"
       \/ /\ monitor_pc \in {"if", "appended"}
          /\ Changed(current_clipboard, last_clipboard)

\* C25: a tick that fails while it reads the clipboard or while it handles a
\* change leaves the loop running and has added no ledger entry and no
\* event; the remembered content is unchanged, so that the same content is
\* handled again on the next tick.  (At "appended" the tick has made its
\* append.)
C25_FailedTickAddsNothing ==
    [][TickFails =>
          /\ monitor_pc # "appended"
          /\ UNCHANGED <<clipboard_history, recorded, event_queue,
                         last_clipboard, monitoring>>]_vars

\* C26: once stop() has cleared the flag, the loop completes at most the
\* iteration in progress and leaves at its next test: at most one entry is
\* recorded after the call of stop(), and nothing is recorded or enqueued
\* once the loop has exited.
C26_StopEndsPolling ==
    [][/\ call'.fn = "stop" =>
              /\ ~monitoring'
              /\ Len(recorded') <= call'.recorded + 1
              /\ Len(clipboard_history') <= call'.recorded + 1
       /\ (call.fn = "stop" /\ monitor_pc = "while") =>
              monitor_pc' \in {"while", "exited"}
       /\ monitor_pc = "exited" =>
              /\ monitor_pc' = "exited"
              /\ UNCHANGED <<clipboard_history, recorded, event_queue,
                             last_clipboard>>]_vars

\* stop() was called during an iteration that went on to record its entry,
\* and the loop has exited
C26_Witness ==
    /\ call.fn = "stop"
    /\ Len(recorded) = call.recorded + 1
    /\ Len(event_queue) = Len(recorded)
    /\ monitor_pc = "exited"
    /\ ~monitoring

\* C27: the source of a paste event is typed spreadsheet and carries the
\* location {sheet, address}, the workbook name and the path exactly when the
\* source context of the ledger entry has an Excel selection; otherwise its
\* type is inferred from the application name of the entry and it carries no
\* location (a copy made in Excel without a selection is a spreadsheet
\* without location).
C27_SelectionGivesStructuredSource ==
    (call.fn = "_create_unified_paste_event" /\ returned.value.source # NoneDict) =>
        LET context == call.entry.source
            selection == Get(context, "excel_selection", NoneDict)
            source == returned.value.source
        IN  IF selection # NoneDict
            THEN /\ source.type = "spreadsheet"
                 /\ {"location", "document", "path"} \subseteq DOMAIN source
                 /\ source.location = [sheet |-> selection.sheet,
                                       address |-> selection.address,
                                       type |-> "cell_range"]
                 /\ source.document = selection.workbook
                 /\ source.path = selection.path
            ELSE /\ source.type = _infer_app_type(context.application)
                 /\ "location" \notin DOMAIN source
                 /\ "path" \notin DOMAIN source
                 /\ context.application = <<"M","i","c","r","o","s","o","f","t"," ","E","x","c","e","l">> => source.type = "spreadsheet"
                 /\ context.application = <<"C","o","d","e">> => source.type = "code_editor"

\* a copy of Sales.xlsx!Q1!A1:B2 made in Excel on macOS
C27_Witness ==
    /\ call.fn = "_create_unified_paste_event"
    /\ platform = "Darwin"
    /\ "excel_cells" \in DOMAIN call.entry
    /\ returned.value.source.type = "spreadsheet"
    /\ returned.value.source.document = <<"S","a","l","e","s",".","x","l","s","x">>
    /\ returned.value.source.location.sheet = <<"Q","1">>
    /\ returned.value.source.location.address = <<"A","1",":","B","2">>
    /\ returned.value.source.path = <<"/","d","/","S","a","l","e","s",".","x","l","s","x">>

\* C28: within one paste correlation the destination context is acquired
\* before the ledger is consulted: the step that takes the command stores the
\* destination and builds no event, and a copy the monitor records between
\* that step and the creation of the event is the source of the event.
C28_LedgerReadAfterDestination ==
    [][/\ (Handles /\ handler_pc' = "create") =>
              /\ destination_context' # EmptyDict
              /\ paste_log' = paste_log
       /\ (Creates /\ Len(recorded) > call.recorded) =>
              /\ Created.destination = destination_context
              /\ Created.source # NoneDict
              /\ Created.source.content =
                     recorded[Len(recorded)].event.content_preview]_vars

\* the ledger held "hi" when the command was taken and the copy of "42" was
\* recorded before the event was built
C28_Witness ==
    /\ Len(paste_log) = 1
    /\ call.fn = "handle_command"
    /\ call.recorded = 1
    /\ Len(recorded) = 2
    /\ recorded[1].raw = <<"h","i">>
    /\ recorded[2].raw = <<"4","2">>
    /\ paste_log[1].source.content = <<"4","2">>
    /\ paste_log[1].destination.type = "document"

\* C29: every recorded change makes one ledger append and one put of a
\* clipboard_copy event carrying the same record, in the same order: with no
\* recording in progress the events enqueued so far are the recorded events
\* in their order, and the ledger is the last min(n, max_history) of these n
\* events; between the append and the put of a recording the queue lacks
\* exactly the newest record.
C29_LedgerMirrorsQueue ==
    LET n == Len(event_queue)
    IN  /\ \A i \in 1..n : event_queue[i].type = "clipboard_copy"
        /\ IF monitor_pc = "appended"
           THEN /\ Len(recorded) = n + 1
                /\ event_queue = SubSeq(RecordedEvents, 1, n)
           ELSE /\ event_queue = RecordedEvents
                /\ clipboard_history = LastN(event_queue, Min(n, max_history))

\* more events enqueued than the ledger holds
C29_Witness ==
    /\ monitor_pc = "while"
    /\ Len(event_queue) = max_history + 1
    /\ Len(clipboard_history) = max_history
    /\ clipboard_history[max_history] = event_queue[max_history + 1]
    /\ clipboard_history[1] = event_queue[2]
    /\ event_queue[1] # event_queue[2]

\* a step in which get_last_clipboard returns
Returns ==
    /\ call'.fn = "get_last_clipboard"
    /\ call'.pc = "returned"
    /\ call # call'

\* C30: a ledger that holds an entry is never empty again; and
\* get_last_clipboard, whose test and whose index may be separated by an
\* append and an eviction of the monitor, never fails and returns None or a
\* recorded entry, a recorded entry whenever its test found the ledger not
\* empty.
C30_LedgerStaysNonEmpty ==
    [][/\ clipboard_history # <<>> => clipboard_history' # <<>>
       /\ Returns =>
              /\ "value" \in DOMAIN returned'
              /\ \/ returned'.value = NoneDict /\ call.fn # "get_last_clipboard"
                 \/ returned'.value = NoneDict /\ call.pc = "returned"
                 \/ \E i \in 1..Len(recorded) : returned'.value = recorded[i].event
       /\ (Returns /\ clipboard_history # <<>>) =>
              \E i \in 1..Len(recorded) : returned'.value = recorded[i].event]_vars

\* the reader has passed its test and the monitor is between the append and
\* the eviction of a full ledger
C30_Witness ==
    /\ call.fn = "get_last_clipboard"
    /\ call.pc = "index"
    /\ monitor_pc = "appended"
    /\ Len(clipboard_history) = max_history + 1

\* a step of a reader of the ledger
Reads ==
    /\ call' # call
    /\ call'.fn \in {"get_last_clipboard", "find_paste_destination"}

\* C31: a reader that runs next to the monitor thread (get_last_clipboard
\* or find_paste_destination) never reads a ledger of more than max_history
\* entries, not even between the append and the eviction of one recording,
\* and so is never handed an entry older than the last max_history recorded.
C31_ReaderSeesBoundedLedger ==
    [][Reads =>
          /\ Len(clipboard_history) <= max_history
          /\ ("value" \in DOMAIN returned' /\ returned'.value # NoneDict) =>
                 \E i \in 1..Len(recorded) :
                     /\ i > Len(recorded) - max_history
                     /\ returned'.value = recorded[i].event]_vars

\* C32: no two consecutive entries of the ledger hold the same stored
\* content, whatever sequence of clipboard contents is polled.
C32_NeighboursDiffer ==
    \A i \in 1..(Len(clipboard_history) - 1) :
        clipboard_history[i].content # clipboard_history[i + 1].content

(***************************************************************************)
(* Claims about the transport and the frame of the correlator.             *)
(***************************************************************************)
\* C33: once the service runs with electron_connected false (after a
\* connection that failed, a send that failed or a closed connection), no
\* step sets it true again, and every event handed to the transport from
\* then on is dropped, none is sent.
C33_DisconnectedIsAbsorbing ==
    [][(service_pc = "running" /\ ~electron_connected) =>
          /\ ~electron_connected'
          /\ last_send' # last_send => last_send'.outcome = "dropped"]_vars

\* the connection was closed while the socket object stayed, and an event
\* captured afterwards was dropped
C33_Witness ==
    /\ service_pc = "running"
    /\ websocket = "open"
    /\ listener = "closed"
    /\ ~electron_connected
    /\ last_send # NoneDict
    /\ last_send.outcome = "dropped"

\* C34: a paste correlation (taking the command, building the event) and a
\* call of get_last_clipboard or find_paste_destination leave the ledger and
\* the remembered last content as they are; the ledger changes only in a
\* recording, by the append of the new entry at the end or by the eviction of
\* the oldest, so that every entry that stays in the ledger stays as it was
\* appended.
C34_OnlyRecordingWritesLedger ==
    [][/\ (Handles \/ Creates \/ Reads) =>
              UNCHANGED <<clipboard_history, last_clipboard, recorded>>
       /\ clipboard_history' # clipboard_history =>
              \/ /\ monitor_pc = "if"
                 /\ monitor_pc' = "appended"
                 /\ Len(recorded') = Len(recorded) + 1
                 /\ clipboard_history' =
                        Append(clipboard_history, recorded'[Len(recorded')].event)
              \/ /\ monitor_pc = "appended"
                 /\ monitor_pc' = "while"
                 /\ Len(clipboard_history) > max_history
                 /\ clipboard_history' = Tail(clipboard_history)
       /\ \A i \in 1..Len(clipboard_history') :
              \E j \in 1..Len(recorded') : clipboard_history'[i] = recorded'[j].event]_vars

\* a paste has been correlated with an entry of a ledger that has evicted
\* its oldest entry, a read has returned, and the entry is still the newest
C34_Witness ==
    /\ Len(recorded) = max_history + 1
    /\ Len(clipboard_history) = max_history
    /\ Len(paste_log) = 1
    /\ paste_log[1].source # NoneDict
    /\ paste_log[1].source.content = clipboard_history[max_history].content_preview
    /\ call.fn = "find_paste_destination"
    /\ returned.value = clipboard_history[max_history]

(***************************************************************************)
(* Claims about ExcelCapture, checked under SpecExcel.                     *)
(***************************************************************************)
\* a step in which an excel_selection event is emitted, and its address
Emits == Len(event_queue') > Len(event_queue)

EmittedAddress == event_queue'[Len(event_queue')].address

\* neighbours among the emitted events have different addresses
SelectionsAlternate(emitted) ==
    \A i \in 1..(Len(emitted) - 1) : emitted[i].address # emitted[i + 1].address

\* C35 as stated: an excel_selection event is emitted only for an address
\* that differs from last_selection, which then becomes that address, so
\* that a capture of an unchanged address, the forced capture of a
\* spreadsheet paste included, emits nothing and any two events emitted one
\* after the other have different addresses.
C35_EmittedSelectionsDiffer ==
    [][/\ Emits =>
              /\ EmittedAddress # last_selection
              /\ last_selection' = EmittedAddress
       /\ SelectionsAlternate(event_queue')]_vars

\* C35, amended: an event is emitted only for an address that differs from
\* last_selection, one event per capture, and last_selection is that address
\* afterwards; a capture of an unchanged address emits nothing.
\* last_selection is set before the event is built: on macOS it changes only
\* together with an emission, and events emitted one after the other have
\* different addresses; on Windows a capture that fails after it has the
\* address changes last_selection and emits nothing.
C35_SelectionEmittedOnChange ==
    [][/\ Emits =>
              /\ EmittedAddress # last_selection
              /\ last_selection' = EmittedAddress
              /\ event_queue' = Append(event_queue, event_queue'[Len(event_queue')])
              /\ event_queue'[Len(event_queue')].type = "excel_selection"
       /\ last_selection' # last_selection => (Emits \/ platform = "Windows")
       /\ platform = "Darwin" => SelectionsAlternate(event_queue')]_vars

\* two selections were emitted, the second by the forced capture of a
\* spreadsheet paste or before it, and the paste has been correlated
C35_Witness ==
    /\ Len(event_queue) = 2
    /\ event_queue[1].address # event_queue[2].address
    /\ last_selection = event_queue[2].address
    /\ last_selection = <<"C","3">>
    /\ Len(paste_log) = 1

=============================================================================
